---- MODULE Spec2Model ----
(***************************************************************************)
(* gpu-admission: a scheduler extender that admits GPU pods.               *)
(*                                                                         *)
(* The model holds the cluster objects the extender reads and writes (the  *)
(* pods of the API server, the pod informer cache, the quota configmap),   *)
(* the quota store of the GPUFilter, and one action per handler: Filter    *)
(* (one admission request), syncQuota (the background refresher) and the   *)
(* cluster's own steps (bind, termination, informer delivery).  Strings    *)
(* that the code formats and parses (annotation keys and values) are       *)
(* sequences of tokens, so strconv.Itoa / strings.Join / strings.Split /   *)
(* strconv.Atoi are computed, not assumed.                                 *)
(*                                                                         *)
(* Spec is the extender with two GPU pods.  SpecOnePod is the extender     *)
(* with one pod of any shape and a configmap that can be deleted.          *)
(* SpecNodeInfo follows one NodeInfo through its reservations, and         *)
(* SpecPoll one poll of the annotation patch through its attempts.         *)
(* SpecTestDeviceFilter is the cluster and the run of TestDeviceFilter,    *)
(* and SpecQuotaStore takes Filter and the refresher statement by          *)
(* statement around the mutex of the quota store; SpecQuotaStoreFair adds  *)
(* the scheduling of the goroutines.  SpecAnnotated is the extender on a   *)
(* node of less than one device and on index annotations of any writer.    *)
(***************************************************************************)
EXTENDS Integers, Sequences, FiniteSets, TLC

VARIABLES
    build,      \* which GPUFilter is linked: "quota" (with quotaFilter) or "plain"
    nodes,      \* node name -> node object (capacity, labels); fixed after Init
    podSpec,    \* pod name -> [ns, containers]; fixed after Init
    pods,       \* API server: pod name -> [nodeName, phase, ann]
    cache,      \* pod informer cache: pod name -> [nodeName, phase, ann]
    configMap,  \* the quota configmap as the configmap lister returns it
    quota,      \* GPUFilter.quota
    quotaLastSyncedRevision, \* GPUFilter.quotaLastSyncedRevision
    patchCount, \* pod name -> the annotation patches the API server applied to it
    last,       \* the request handled by the step that led here, and its response
    nodeInfo    \* the NodeInfo an allocator works on (SpecNodeInfo), else NoNodeInfo

vars == <<build, nodes, podSpec, pods, cache, configMap, quota,
          quotaLastSyncedRevision, patchCount, last, nodeInfo>>

----------------------------------------------------------------------------
(* Bounds of the model *)

\* number of annotation patches the API server applies in one behaviour
MaxPatches == 2

----------------------------------------------------------------------------
(* util.go: constants *)

VCoreAnnotation == "tencent.com/vcuda-core"
VMemoryAnnotation == "tencent.com/vcuda-memory"
PredicateTimeAnnotation == "tencent.com/predicate-time"
PredicateGPUIndexPrefix == "tencent.com/predicate-gpu-idx-"
PredicateNode == "tencent.com/predicate-node"
GPUAssigned == "tencent.com/gpu-assigned"
HundredCore == 100

\* GPUFilterConfig.GPUModelLabel / GPUPoolLabel as docs/gpu-quota.md sets them
GPUModelLabel == "tkestack.io/gpu-model"
GPUPoolLabel == "tkestack.io/gpu-pool"

PodPending == "Pending"
PodRunning == "Running"
PodSucceeded == "Succeeded"
PodFailed == "Failed"

----------------------------------------------------------------------------
(* Strings: a string the code builds or parses is a sequence of tokens;    *)
(* a token is a name taken whole (a constant, a node name) or a character. *)

Digits == <<"0", "1", "2", "3", "4", "5", "6", "7", "8", "9">>

RECURSIVE Itoa(_)
\* strconv.Itoa for n >= 0
Itoa(n) == IF n < 10 THEN <<Digits[n + 1]>>
           ELSE Itoa(n \div 10) \o <<Digits[(n % 10) + 1]>>

DigitValue(c) == CHOOSE d \in 0..9 : Digits[d + 1] = c

IsDigit(c) == \E d \in 0..9 : Digits[d + 1] = c

RECURSIVE AtoiDigits(_)
AtoiDigits(s) == IF Len(s) = 0 THEN 0
                 ELSE 10 * AtoiDigits(SubSeq(s, 1, Len(s) - 1)) + DigitValue(s[Len(s)])

\* strconv.Atoi: [ok, val]; an optional sign, then one or more digits
Atoi(s) ==
    LET neg == Len(s) > 0 /\ s[1] = "-"
        body == IF Len(s) > 0 /\ s[1] \in {"-", "+"} THEN Tail(s) ELSE s
    IN IF Len(body) = 0 \/ \E i \in 1..Len(body) : ~IsDigit(body[i])
       THEN [ok |-> FALSE, val |-> 0]
       ELSE [ok |-> TRUE, val |-> IF neg THEN 0 - AtoiDigits(body) ELSE AtoiDigits(body)]

RECURSIVE Join(_, _)
\* strings.Join(parts, sep)
Join(parts, sep) ==
    IF Len(parts) = 0 THEN <<>>
    ELSE IF Len(parts) = 1 THEN parts[1]
    ELSE parts[1] \o <<sep>> \o Join(Tail(parts), sep)

RECURSIVE Split(_, _)
\* strings.Split(s, sep): always at least one part
Split(s, sep) ==
    IF \A i \in 1..Len(s) : s[i] # sep THEN <<s>>
    ELSE LET i == CHOOSE k \in 1..Len(s) :
                     s[k] = sep /\ \A j \in 1..(k - 1) : s[j] # sep
         IN <<SubSeq(s, 1, i - 1)>> \o Split(SubSeq(s, i + 1, Len(s)), sep)

\* strings.Contains(k, name) for a key k and one of the annotation names
Contains(k, name) == \E i \in 1..Len(k) : k[i] = name

\* PredicateGPUIndexPrefix + strconv.Itoa(i)
GPUIndexKey(i) == <<PredicateGPUIndexPrefix>> \o Itoa(i)

NoAnnotations == [k \in {} |-> <<>>]

\* m[k] = v added to map m
MapSet(m, k, v) == [x \in DOMAIN m \cup {k} |-> IF x = k THEN v ELSE m[x]]

\* strategic merge patch of the annotation map: the patch's keys overwrite
MergePatch(m, patch) ==
    [x \in DOMAIN m \cup DOMAIN patch |-> IF x \in DOMAIN patch THEN patch[x] ELSE m[x]]

RECURSIVE SumOver(_, _)
\* the sum of f[x] over the finite set S
SumOver(S, f) == IF S = {} THEN 0
                 ELSE LET x == CHOOSE y \in S : TRUE
                      IN f[x] + SumOver(S \ {x}, f)

RECURSIVE SeqSum(_)
SeqSum(s) == IF Len(s) = 0 THEN 0 ELSE s[1] + SeqSum(Tail(s))

Range(s) == {s[i] : i \in 1..Len(s)}

\* the orders in which a lister can return the elements of S
Orders(S) == {s \in [1..Cardinality(S) -> S] : Range(s) = S}

----------------------------------------------------------------------------
(* util.go *)

\* container.Resources.Limits[resourceName], 0 when the entry is missing
GetGPUResourceOfContainer(container, resourceName) ==
    IF resourceName \in DOMAIN container.limits
    THEN container.limits[resourceName] ELSE 0

\* the sum of the containers' limits of resourceName
GetGPUResourceOfPod(pod, resourceName) ==
    SeqSum([i \in 1..Len(pod.containers) |->
                GetGPUResourceOfContainer(pod.containers[i], resourceName)])

IsGPURequiredPod(pod) ==
    LET vcore == GetGPUResourceOfPod(pod, VCoreAnnotation)
        vmemory == GetGPUResourceOfPod(pod, VMemoryAnnotation)
    IN ~(vcore <= 0 \/ (vcore < HundredCore /\ vmemory <= 0))

IsGPURequiredContainer(c) ==
    LET vcore == GetGPUResourceOfContainer(c, VCoreAnnotation)
        vmemory == GetGPUResourceOfContainer(c, VMemoryAnnotation)
    IN ~(vcore <= 0 \/ (vcore < HundredCore /\ vmemory <= 0))

GetCapacityOfNode(node, resourceName) ==
    IF resourceName \in DOMAIN node.capacity THEN node.capacity[resourceName] ELSE 0

IsGPUEnabledNode(node) == GetCapacityOfNode(node, VCoreAnnotation) > 0

GetGPUDeviceCountOfNode(node) ==
    IF VCoreAnnotation \in DOMAIN node.capacity
    THEN node.capacity[VCoreAnnotation] \div HundredCore ELSE 0

\* [ok, ret]: the device indexes of the container's predicate-gpu-idx
\* annotation; not ok when the key is missing or one part is no integer
GetPredicateIdxOfContainer(pod, containerIndex) ==
    LET key == GPUIndexKey(containerIndex)
    IN IF key \notin DOMAIN pod.ann THEN [ok |-> FALSE, ret |-> <<>>]
       ELSE LET parts == Split(pod.ann[key], ",")
                parsed == [i \in 1..Len(parts) |-> Atoi(parts[i])]
            IN IF \E i \in 1..Len(parts) : ~parsed[i].ok
               THEN [ok |-> FALSE, ret |-> <<>>]
               ELSE [ok |-> TRUE, ret |-> [i \in 1..Len(parts) |-> parsed[i].val]]

\* apierr.IsConflict(err) || apierr.IsServerTimeout(err)
\* a variant of ShouldRetry that retries after every error
ShouldRetryAlways(err) == err # "nil"

ShouldRetry(err) == err \in {"Conflict", "ServerTimeout"}

----------------------------------------------------------------------------
(* device: DeviceInfo *)

newDeviceInfo(id, totalMemory) ==
    [id |-> id, totalMemory |-> totalMemory, usedMemory |-> 0, usedCore |-> 0]

\* a variant of DeviceInfo.AddUsedResources without the memory ceiling
DeviceInfo_AddUsedResourcesCoreOnly(dev, usedCore, usedMemory) ==
    IF usedCore + dev.usedCore > HundredCore THEN [ok |-> FALSE, dev |-> dev]
    ELSE [ok |-> TRUE,
          dev |-> [dev EXCEPT !.usedCore = dev.usedCore + usedCore,
                              !.usedMemory = dev.usedMemory + usedMemory]]

\* [ok, dev]: the device is unchanged when either ceiling would be exceeded
DeviceInfo_AddUsedResources(dev, usedCore, usedMemory) ==
    IF usedCore + dev.usedCore > HundredCore THEN [ok |-> FALSE, dev |-> dev]
    ELSE IF usedMemory + dev.usedMemory > dev.totalMemory THEN [ok |-> FALSE, dev |-> dev]
    ELSE [ok |-> TRUE,
          dev |-> [dev EXCEPT !.usedCore = dev.usedCore + usedCore,
                              !.usedMemory = dev.usedMemory + usedMemory]]

AllocatableCores(d) == HundredCore - d.usedCore

AllocatableMemory(d) == d.totalMemory - d.usedMemory

----------------------------------------------------------------------------
(* device: NodeInfo *)

\* a variant of NodeInfo.AddUsedResources that adds to the aggregates whatever
\* the device answered
NodeInfo_AddUsedResourcesAlways(n, devID, vcore, vmemory) ==
    IF devID \notin DOMAIN n.devs THEN [ok |-> FALSE, panic |-> TRUE, n |-> n]
    ELSE LET r == DeviceInfo_AddUsedResources(n.devs[devID], vcore, vmemory)
         IN [ok |-> r.ok, panic |-> FALSE,
             n |-> [n EXCEPT !.devs[devID] = r.dev,
                             !.usedCore = n.usedCore + vcore,
                             !.usedMemory = n.usedMemory + vmemory]]

\* [ok, panic, n]: a devID that is no key of n.devs is a nil device, and
\* the call on it faults
NodeInfo_AddUsedResources(n, devID, vcore, vmemory) ==
    IF devID \notin DOMAIN n.devs THEN [ok |-> FALSE, panic |-> TRUE, n |-> n]
    ELSE LET r == DeviceInfo_AddUsedResources(n.devs[devID], vcore, vmemory)
         IN IF ~r.ok THEN [ok |-> FALSE, panic |-> FALSE, n |-> n]
            ELSE [ok |-> TRUE, panic |-> FALSE,
                  n |-> [n EXCEPT !.devs[devID] = r.dev,
                                  !.usedCore = n.usedCore + vcore,
                                  !.usedMemory = n.usedMemory + vmemory]]

\* a variant of ReplayIndex that gives the view up at an index out of range
ReplayIndexGivesUp(v, index, c, deviceCount, deviceTotalMemory) ==
    IF v.panic THEN v
    ELSE IF index >= deviceCount THEN [v EXCEPT !.panic = TRUE]
    ELSE LET cores == GetGPUResourceOfContainer(c, VCoreAnnotation)
             vcore == IF cores < HundredCore THEN cores ELSE HundredCore
             vmemory == IF cores < HundredCore
                        THEN GetGPUResourceOfContainer(c, VMemoryAnnotation)
                        ELSE deviceTotalMemory
             r == NodeInfo_AddUsedResources(v.n, index, vcore, vmemory)
         IN [panic |-> r.panic, n |-> r.n]

\* a variant of ReplayIndex that charges every container what it requests
ReplayIndexAsRequested(v, index, c, deviceCount, deviceTotalMemory) ==
    IF v.panic THEN v
    ELSE IF index >= deviceCount THEN v
    ELSE LET r == NodeInfo_AddUsedResources(v.n, index,
                      GetGPUResourceOfContainer(c, VCoreAnnotation),
                      GetGPUResourceOfContainer(c, VMemoryAnnotation))
         IN [panic |-> r.panic, n |-> r.n]

\* one index of one container's annotation, replayed into the view
ReplayIndex(v, index, c, deviceCount, deviceTotalMemory) ==
    IF v.panic THEN v
    ELSE IF index >= deviceCount THEN v
    ELSE LET cores == GetGPUResourceOfContainer(c, VCoreAnnotation)
             vcore == IF cores < HundredCore THEN cores ELSE HundredCore
             vmemory == IF cores < HundredCore
                        THEN GetGPUResourceOfContainer(c, VMemoryAnnotation)
                        ELSE deviceTotalMemory
             r == NodeInfo_AddUsedResources(v.n, index, vcore, vmemory)
         IN [panic |-> r.panic, n |-> r.n]

RECURSIVE ReplayIndexes(_, _, _, _, _)
ReplayIndexes(v, indexes, c, deviceCount, deviceTotalMemory) ==
    IF Len(indexes) = 0 THEN v
    ELSE ReplayIndexes(ReplayIndex(v, indexes[1], c, deviceCount, deviceTotalMemory),
                       Tail(indexes), c, deviceCount, deviceTotalMemory)

RECURSIVE ReplayContainers(_, _, _, _, _)
\* containers i.. of one pod (i is the 0-based container index)
ReplayContainers(v, pod, i, deviceCount, deviceTotalMemory) ==
    IF i >= Len(pod.containers) THEN v
    ELSE LET idx == GetPredicateIdxOfContainer(pod, i)
             w == IF ~idx.ok THEN v
                  ELSE ReplayIndexes(v, idx.ret, pod.containers[i + 1],
                                     deviceCount, deviceTotalMemory)
         IN ReplayContainers(w, pod, i + 1, deviceCount, deviceTotalMemory)

\* a variant of ReplayPods that replays the first pod of the list alone
ReplayPodsFirstOnly(v, podList, deviceCount, deviceTotalMemory) ==
    IF Len(podList) = 0 THEN v
    ELSE ReplayContainers(v, podList[1], 0, deviceCount, deviceTotalMemory)

RECURSIVE ReplayPods(_, _, _, _)
ReplayPods(v, podList, deviceCount, deviceTotalMemory) ==
    IF Len(podList) = 0 THEN v
    ELSE ReplayPods(ReplayContainers(v, podList[1], 0, deviceCount, deviceTotalMemory),
                    Tail(podList), deviceCount, deviceTotalMemory)

\* [panic, n]: the view of node built from the pods on it.  A node with a
\* vcuda-core capacity below 100 has no device and the per-device memory
\* divides by zero.
NewNodeInfo(node, podList) ==
    LET nodeTotalMemory == GetCapacityOfNode(node, VMemoryAnnotation)
        deviceCount == GetGPUDeviceCountOfNode(node)
        empty == [name |-> node.name, node |-> node,
                  devs |-> [i \in {} |-> newDeviceInfo(0, 0)],
                  deviceCount |-> deviceCount, totalMemory |-> nodeTotalMemory,
                  usedCore |-> 0, usedMemory |-> 0]
    IN IF deviceCount = 0 THEN [panic |-> TRUE, n |-> empty]
       ELSE LET deviceTotalMemory == nodeTotalMemory \div deviceCount
                ret == [empty EXCEPT
                           !.devs = [i \in 0..(deviceCount - 1) |->
                                         newDeviceInfo(i, deviceTotalMemory)]]
            IN ReplayPods([panic |-> FALSE, n |-> ret], podList,
                          deviceCount, deviceTotalMemory)

GetAvailableCore(n) == n.deviceCount * HundredCore - n.usedCore

GetAvailableMemory(n) == n.totalMemory - n.usedMemory

----------------------------------------------------------------------------
(* device: the comparators and the sorts *)

\* the order of Go's string comparison on the names the model uses
NameOrder == <<"node0", "node1", "node2", "node3", "pod0", "pod1", "pod2", "pod3">>

StringLess(a, b) ==
    \E i, j \in 1..Len(NameOrder) : NameOrder[i] = a /\ NameOrder[j] = b /\ i < j

\* a variant of DeviceLess that puts the higher id first among equals
DeviceLessHighID(d1, d2) ==
    IF AllocatableCores(d1) < AllocatableCores(d2) THEN TRUE
    ELSE IF AllocatableCores(d2) < AllocatableCores(d1) THEN FALSE
    ELSE IF AllocatableMemory(d1) < AllocatableMemory(d2) THEN TRUE
    ELSE IF AllocatableMemory(d2) < AllocatableMemory(d1) THEN FALSE
    ELSE d1.id > d2.id

\* ByAllocatableCores, ByAllocatableMemory, ByID on two DeviceInfo, chained
\* as the Less method of the sorters chains them
DeviceLess(d1, d2) ==
    IF AllocatableCores(d1) < AllocatableCores(d2) THEN TRUE
    ELSE IF AllocatableCores(d2) < AllocatableCores(d1) THEN FALSE
    ELSE IF AllocatableMemory(d1) < AllocatableMemory(d2) THEN TRUE
    ELSE IF AllocatableMemory(d2) < AllocatableMemory(d1) THEN FALSE
    ELSE d1.id < d2.id

\* a variant of NodeInfoLess that compares the names alone
NodeInfoLessByName(n1, n2) == StringLess(n1.name, n2.name)

\* the same chain on two NodeInfo
NodeInfoLess(n1, n2) ==
    IF GetAvailableCore(n1) < GetAvailableCore(n2) THEN TRUE
    ELSE IF GetAvailableCore(n2) < GetAvailableCore(n1) THEN FALSE
    ELSE IF GetAvailableMemory(n1) < GetAvailableMemory(n2) THEN TRUE
    ELSE IF GetAvailableMemory(n2) < GetAvailableMemory(n1) THEN FALSE
    ELSE StringLess(n1.name, n2.name)

\* sort.Sort under a strict total order: the element at position i has
\* i - 1 elements below it

\* shareModeSort / exclusiveModeSort (...).Sort(tmpStore)
SortDevices(n) ==
    LET S == {n.devs[i] : i \in 0..(n.deviceCount - 1)}
    IN [i \in 1..Cardinality(S) |->
           CHOOSE x \in S : Cardinality({y \in S : DeviceLess(y, x)}) = i - 1]

\* NodeInfoSort(...).Sort(nodeInfoList)
SortNodeInfos(S) ==
    [i \in 1..Cardinality(S) |->
        CHOOSE x \in S : Cardinality({y \in S : NodeInfoLess(y, x)}) = i - 1]

\* the names of S in ascending order: the node list of a request
SortNames(S) ==
    [i \in 1..Cardinality(S) |->
        CHOOSE x \in S : Cardinality({y \in S : StringLess(y, x)}) = i - 1]

----------------------------------------------------------------------------
(* algorithm: share mode, exclusive mode, allocator *)

RECURSIVE FirstFit(_, _, _)
FirstFit(sorted, cores, memory) ==
    IF Len(sorted) = 0 THEN <<>>
    ELSE IF AllocatableCores(sorted[1]) >= cores /\ AllocatableMemory(sorted[1]) >= memory
         THEN <<sorted[1]>>
         ELSE FirstFit(Tail(sorted), cores, memory)

\* a variant of shareMode.Evaluate that walks the devices by id, unsorted
shareModeEvaluateByID(n, cores, memory) ==
    FirstFit([i \in 1..n.deviceCount |-> n.devs[i - 1]], cores, memory)

\* a variant of shareMode.Evaluate that wants a memory unit to spare
shareModeEvaluateSpare(n, cores, memory) ==
    FirstFit(SortDevices(n), cores, memory + 1)

\* shareMode.Evaluate: at most one device
shareModeEvaluate(n, cores, memory) == FirstFit(SortDevices(n), cores, memory)

RECURSIVE TakeFree(_, _)
\* [devs, num]: the walk of exclusiveMode.Evaluate over the sorted devices
TakeFree(sorted, num) ==
    IF Len(sorted) = 0 \/ num = 0 THEN [devs |-> <<>>, num |-> num]
    ELSE IF AllocatableCores(sorted[1]) = HundredCore
         THEN LET r == TakeFree(Tail(sorted), num - 1)
              IN [devs |-> <<sorted[1]>> \o r.devs, num |-> r.num]
         ELSE TakeFree(Tail(sorted), num)

\* a variant of exclusiveMode.Evaluate that returns the free devices it found
\* when they are fewer than cores / 100
exclusiveModeEvaluateAny(n, cores, memory) ==
    TakeFree(SortDevices(n), cores \div HundredCore).devs

\* exclusiveMode.Evaluate: cores / 100 free devices, or none
exclusiveModeEvaluate(n, cores, memory) ==
    LET r == TakeFree(SortDevices(n), cores \div HundredCore)
    IN IF r.num > 0 THEN <<>> ELSE r.devs

RECURSIVE ChargeDevices(_, _, _, _)
\* the loop of AllocateOne that records the request on each chosen device
ChargeDevices(n, devs, vcore, vmemory) ==
    IF Len(devs) = 0 THEN [ok |-> TRUE, n |-> n]
    ELSE LET r == NodeInfo_AddUsedResources(n, devs[1].id, vcore, vmemory)
         IN IF ~r.ok THEN [ok |-> FALSE, n |-> r.n]
            ELSE ChargeDevices(r.n, Tail(devs), vcore, vmemory)

\* a variant of AllocateOne that records the memory the container asks for
\* on the devices it takes whole
AllocateOneAsRequested(n, container) ==
    LET needCores == GetGPUResourceOfContainer(container, VCoreAnnotation)
        needMemory == GetGPUResourceOfContainer(container, VMemoryAnnotation)
        sharedMode == needCores < HundredCore
        vcore == IF sharedMode THEN needCores ELSE HundredCore
        Charged(devs, r) == IF ~r.ok THEN [ok |-> FALSE, devs |-> <<>>, n |-> r.n]
                            ELSE [ok |-> TRUE, devs |-> devs, n |-> r.n]
        Charge(devs) == IF Len(devs) = 0 THEN [ok |-> FALSE, devs |-> <<>>, n |-> n]
                        ELSE Charged(devs, ChargeDevices(n, devs, vcore, needMemory))
    IN Charge(IF sharedMode THEN shareModeEvaluate(n, needCores, needMemory)
              ELSE exclusiveModeEvaluate(n, needCores, needMemory))

\* allocator.AllocateOne: [ok, devs, n]
AllocateOne(n, container) ==
    LET nodeTotalMemory == GetCapacityOfNode(n.node, VMemoryAnnotation)
        deviceCount == GetGPUDeviceCountOfNode(n.node)
        deviceTotalMemory == nodeTotalMemory \div deviceCount
        needCores == GetGPUResourceOfContainer(container, VCoreAnnotation)
        needMemory == GetGPUResourceOfContainer(container, VMemoryAnnotation)
        sharedMode == needCores < HundredCore
        vcore == IF sharedMode THEN needCores ELSE HundredCore
        vmemory == IF sharedMode THEN needMemory ELSE deviceTotalMemory
        Charged(devs, r) == IF ~r.ok THEN [ok |-> FALSE, devs |-> <<>>, n |-> r.n]
                            ELSE [ok |-> TRUE, devs |-> devs, n |-> r.n]
        Charge(devs) == IF Len(devs) = 0 THEN [ok |-> FALSE, devs |-> <<>>, n |-> n]
                        ELSE Charged(devs, ChargeDevices(n, devs, vcore, vmemory))
    IN Charge(IF sharedMode THEN shareModeEvaluate(n, needCores, needMemory)
              ELSE exclusiveModeEvaluate(n, needCores, needMemory))

RECURSIVE AllocateContainersFresh(_, _, _, _)
\* a variant of the container loop that places every container on the view
\* as Allocate received it
AllocateContainersFresh(n, pod, i, ann) ==
    IF i >= Len(pod.containers) THEN [ok |-> TRUE, ann |-> ann, n |-> n]
    ELSE IF ~IsGPURequiredContainer(pod.containers[i + 1])
         THEN AllocateContainersFresh(n, pod, i + 1, ann)
         ELSE LET devIDs(devs) == [k \in 1..Len(devs) |-> Itoa(devs[k].id)]
                  Record(r) ==
                      IF ~r.ok THEN [ok |-> FALSE, ann |-> ann, n |-> r.n]
                      ELSE AllocateContainersFresh(n, pod, i + 1,
                               MapSet(ann, GPUIndexKey(i), Join(devIDs(r.devs), ",")))
              IN Record(AllocateOne(n, pod.containers[i + 1]))

RECURSIVE AllocateContainers(_, _, _, _)
\* the container loop of Allocate from 0-based index i on: [ok, ann, n]
AllocateContainers(n, pod, i, ann) ==
    IF i >= Len(pod.containers) THEN [ok |-> TRUE, ann |-> ann, n |-> n]
    ELSE IF ~IsGPURequiredContainer(pod.containers[i + 1])
         THEN AllocateContainers(n, pod, i + 1, ann)
         ELSE LET devIDs(devs) == [k \in 1..Len(devs) |-> Itoa(devs[k].id)]
                  Record(r) ==
                      IF ~r.ok THEN [ok |-> FALSE, ann |-> ann, n |-> r.n]
                      ELSE AllocateContainers(r.n, pod, i + 1,
                               MapSet(ann, GPUIndexKey(i), Join(devIDs(r.devs), ",")))
              IN Record(AllocateOne(n, pod.containers[i + 1]))

\* fmt.Sprintf("%d", time.Now().UnixNano()): a decimal string that nothing in
\* the repository parses or compares; one token stands for it
UnixNano(now) == <<"unixnano">>

\* a variant of Allocate that annotates the pod copy with the containers it
\* could place when one of them fails
AllocateKeepPartial(n, pod, now) ==
    LET Annotate(r) ==
            [ok |-> TRUE, n |-> r.n,
             ann |-> MapSet(MapSet(MapSet(r.ann, <<PredicateNode>>, <<n.name>>),
                                   <<GPUAssigned>>, <<"false">>),
                            <<PredicateTimeAnnotation>>, UnixNano(now))]
    IN Annotate(AllocateContainers(n, pod, 0, pod.ann))

\* allocator.Allocate: [ok, ann, n]; ann are the annotations of the pod copy
Allocate(n, pod, now) ==
    LET Annotate(r) ==
            IF ~r.ok THEN [ok |-> FALSE, ann |-> pod.ann, n |-> r.n]
            ELSE [ok |-> TRUE, n |-> r.n,
                  ann |-> MapSet(MapSet(MapSet(r.ann, <<PredicateNode>>, <<n.name>>),
                                        <<GPUAssigned>>, <<"false">>),
                                 <<PredicateTimeAnnotation>>, UnixNano(now))]
    IN Annotate(AllocateContainers(n, pod, 0, pod.ann))

----------------------------------------------------------------------------
(* predicate: listers *)

\* the pod object of pod p as the map view (the API server's or the cache's) holds it
PodObject(p, view) ==
    [name |-> p, ns |-> podSpec[p].ns, containers |-> podSpec[p].containers,
     nodeName |-> view[p].nodeName, phase |-> view[p].phase, ann |-> view[p].ann]

\* the field selector of the pod informer: status.phase != Succeeded
podListOptions(pod) == pod.phase # PodSucceeded

\* podLister.Pods(NamespaceAll).List(Everything()): the cached pods, in the
\* order the lister happens to return them
ListAllPods(order) ==
    LET all == [i \in 1..Len(order) |-> PodObject(order[i], cache)]
    IN SelectSeq(all, podListOptions)

\* podLister.Pods(namespace).List(Everything())
ListPodsOfNamespace(order, namespace) ==
    LET InNamespace(pod) == pod.ns = namespace
    IN SelectSeq(ListAllPods(order), InNamespace)

\* nodeLister.List(selector) for the selector gpu-model = gpuModel
ListNodesOfModel(gpuModel) ==
    {n \in DOMAIN nodes : GPUModelLabel \in DOMAIN nodes[n].labels
                          /\ nodes[n].labels[GPUModelLabel] = gpuModel}

\* a variant of ListPodsOnNode that leaves out the pods not bound yet
ListPodsOnNodeBoundOnly(node, podList) ==
    LET OnNode(pod) ==
            /\ pod.nodeName = node.name
            /\ pod.phase # PodSucceeded
            /\ pod.phase # PodFailed
    IN SelectSeq(podList, OnNode)

\* a variant of ListPodsOnNode that keeps the pods that have ended
ListPodsOnNodeAnyPhase(node, podList) ==
    LET predicateNode(pod) ==
            IF pod.nodeName = "" /\ <<PredicateNode>> \in DOMAIN pod.ann
            THEN pod.ann[<<PredicateNode>>] ELSE <<"">>
        OnNode(pod) ==
            pod.nodeName = node.name \/ predicateNode(pod) = <<node.name>>
    IN SelectSeq(podList, OnNode)

\* GPUFilter.ListPodsOnNode over the listed pods
ListPodsOnNode(node, podList) ==
    LET predicateNode(pod) ==
            IF pod.nodeName = "" /\ <<PredicateNode>> \in DOMAIN pod.ann
            THEN pod.ann[<<PredicateNode>>] ELSE <<"">>
        OnNode(pod) ==
            /\ (pod.nodeName = node.name \/ predicateNode(pod) = <<node.name>>)
            /\ pod.phase # PodSucceeded
            /\ pod.phase # PodFailed
    IN SelectSeq(podList, OnNode)

\* GPUFilter.listPodsOnNodes: the namespace's pods bound to a node of the model
listPodsOnNodes(gpuModel, nsPodList) ==
    LET records == ListNodesOfModel(gpuModel)
        Bound(pod) == pod.nodeName \in records
    IN SelectSeq(nsPodList, Bound)

----------------------------------------------------------------------------
(* predicate: the quota filter *)

quotaPod(pod) == ~(PodFailed = pod.phase \/ PodSucceeded = pod.phase)

calculateGPUUsage(podList) ==
    SeqSum([i \in 1..Len(podList) |->
                IF quotaPod(podList[i])
                THEN GetGPUResourceOfPod(podList[i], VCoreAnnotation) ELSE 0])

\* a variant of filterGPUModel that refuses a model filled to its limit
filterGPUModelStrict(pod, namespaceQuota, nsPodList) ==
    {gpuModel \in DOMAIN namespaceQuota.Quota :
        calculateGPUUsage(Append(listPodsOnNodes(gpuModel, nsPodList), pod))
            < namespaceQuota.Quota[gpuModel] * HundredCore}

\* GPUFilter.filterGPUModel: the models of the record whose usage, with this
\* pod added, is within the limit
filterGPUModel(pod, namespaceQuota, nsPodList) ==
    {gpuModel \in DOMAIN namespaceQuota.Quota :
        LET limit == namespaceQuota.Quota[gpuModel] * HundredCore
            gpuUsed == calculateGPUUsage(
                           Append(listPodsOnNodes(gpuModel, nsPodList), pod))
        IN gpuUsed <= limit}

\* the selector "key in values"; labels.Nothing() when the model list is
\* empty, labels.Everything() when the pool list is empty
LabelIn(node, key, values) ==
    key \in DOMAIN node.labels /\ node.labels[key] \in values

\* a variant of filterNodes that selects on the model label alone
filterNodesAnyPool(nodeSeq, gpuModels, pools) ==
    LET Matches(name) == LabelIn(nodes[name], GPUModelLabel, gpuModels)
        NoMatch(name) == ~Matches(name)
    IN [passed |-> SelectSeq(nodeSeq, Matches),
        failed |-> [name \in Range(SelectSeq(nodeSeq, NoMatch)) |-> "ExceedsGPUQuota"]]

\* GPUFilter.filterNodes: [passed, failed]
filterNodes(nodeSeq, gpuModels, pools) ==
    LET Matches(name) ==
            /\ (gpuModels # {} /\ LabelIn(nodes[name], GPUModelLabel, gpuModels))
            /\ (Len(pools) = 0 \/ LabelIn(nodes[name], GPUPoolLabel, Range(pools)))
        NoMatch(name) == ~Matches(name)
    IN [passed |-> SelectSeq(nodeSeq, Matches),
        failed |-> [name \in Range(SelectSeq(nodeSeq, NoMatch)) |-> "ExceedsGPUQuota"]]

\* a variant of quotaFilter that treats a namespace without a record as one
\* with an empty record
quotaFilterClosed(pod, nodeSeq, order) ==
    LET r == filterNodes(nodeSeq, {}, <<>>)
    IN IF pod.ns \notin DOMAIN quota
       THEN [passed |-> r.passed, failed |-> r.failed, exists |-> FALSE, models |-> {}]
       ELSE LET q == quota[pod.ns]
                gpuModels == filterGPUModel(pod, q, ListPodsOfNamespace(order, pod.ns))
                f == filterNodes(nodeSeq, gpuModels, q.Pool)
            IN [passed |-> f.passed, failed |-> f.failed,
                exists |-> TRUE, models |-> gpuModels]

\* GPUFilter.quotaFilter: [passed, failed, exists, models]
quotaFilter(pod, nodeSeq, order) ==
    IF pod.ns \notin DOMAIN quota
    THEN [passed |-> nodeSeq, failed |-> [name \in {} |-> ""],
          exists |-> FALSE, models |-> {}]
    ELSE LET q == quota[pod.ns]
             gpuModels == filterGPUModel(pod, q, ListPodsOfNamespace(order, pod.ns))
             r == filterNodes(nodeSeq, gpuModels, q.Pool)
         IN [passed |-> r.passed, failed |-> r.failed,
             exists |-> TRUE, models |-> gpuModels]

----------------------------------------------------------------------------
(* predicate: the annotation patch *)

\* waitTimeout and the poll interval of wait.PollImmediate, in seconds
waitTimeout == 10
pollInterval == 1

\* the condition runs at once and then once per interval until the timeout
PollAttempts == 1 + waitTimeout \div pollInterval

\* the API server's answer to the i-th Patch call of one poll; the last
\* answer of the script repeats
PatchAnswer(script, i) == IF i <= Len(script) THEN script[i] ELSE script[Len(script)]

RECURSIVE PollFrom(_, _)
\* wait.PollImmediate from attempt i on: [ok, attempts]
PollFrom(script, i) ==
    IF i > PollAttempts THEN [ok |-> FALSE, attempts |-> i - 1]
    ELSE LET err == PatchAnswer(script, i)
         IN IF err = "nil" THEN [ok |-> TRUE, attempts |-> i]
            ELSE IF ShouldRetry(err) THEN PollFrom(script, i + 1)
            ELSE [ok |-> FALSE, attempts |-> i]

\* a variant of patchPodWithAnnotations that drops the error of the poll
patchPodWithAnnotationsNoError(script) ==
    [ok |-> TRUE, attempts |-> PollFrom(script, 1).attempts]

\* GPUFilter.patchPodWithAnnotations against an API server that answers
\* the successive Patch calls as script says: [ok, attempts]
patchPodWithAnnotations(script) == PollFrom(script, 1)

----------------------------------------------------------------------------
(* predicate: the device filter *)

\* a variant of the guard that looks for gpu-assigned alone
AlreadyPredicatedAssignedOnly(pod) ==
    \E k \in DOMAIN pod.ann : Contains(k, GPUAssigned)

\* the guard at the head of deviceFilter
AlreadyPredicated(pod) ==
    \E k \in DOMAIN pod.ann :
        \/ Contains(k, GPUAssigned)
        \/ Contains(k, PredicateTimeAnnotation)
        \/ Contains(k, PredicateGPUIndexPrefix)

\* a variant of annotationMapOf that leaves predicate-node out of the patch
annotationMapOfWithoutNode(ann) ==
    LET keep == {k \in DOMAIN ann :
                    \/ Contains(k, GPUAssigned)
                    \/ Contains(k, PredicateTimeAnnotation)
                    \/ Contains(k, PredicateGPUIndexPrefix)}
    IN [k \in keep |-> ann[k]]

\* the annotations of the allocated pod copy that go into the patch
annotationMapOf(ann) ==
    LET keep == {k \in DOMAIN ann :
                    \/ Contains(k, GPUAssigned)
                    \/ Contains(k, PredicateTimeAnnotation)
                    \/ Contains(k, PredicateGPUIndexPrefix)
                    \/ Contains(k, PredicateNode)}
    IN [k \in keep |-> ann[k]]

NoFailedNodes == [name \in {} |-> ""]

RECURSIVE WalkNodeInfosStop(_, _, _, _, _)
\* a variant of the walk that ends at the first patch that fails
WalkNodeInfosStop(sorted, pod, api, now, st) ==
    IF Len(sorted) = 0 THEN st
    ELSE LET name == sorted[1].node.name
             Patched(a, pr) ==
                 IF ~pr.ok
                 THEN [st EXCEPT !.failed = MapSet(@, name, "update pod annotation failed"),
                                 !.calls = @ + 1,
                                 !.attempts = Append(@, pr.attempts)]
                 ELSE WalkNodeInfosStop(Tail(sorted), pod, api, now,
                          [st EXCEPT !.success = TRUE,
                                     !.filtered = Append(@, name),
                                     !.calls = @ + 1,
                                     !.attempts = Append(@, pr.attempts),
                                     !.patch = annotationMapOf(a.ann)])
             Allocated(a) ==
                 IF ~a.ok
                 THEN WalkNodeInfosStop(Tail(sorted), pod, api, now,
                          [st EXCEPT !.failed = MapSet(@, name, "does not match")])
                 ELSE Patched(a, patchPodWithAnnotations(api[st.calls + 1]))
         IN IF st.success
            THEN WalkNodeInfosStop(Tail(sorted), pod, api, now,
                     [st EXCEPT !.failed = MapSet(@, name, "matched to another node")])
            ELSE Allocated(Allocate(sorted[1], pod, now))

RECURSIVE WalkNodeInfos(_, _, _, _, _)
\* the second loop of deviceFilter over the sorted views;
\* st = [success, filtered, failed, calls, attempts, patch]
WalkNodeInfos(sorted, pod, api, now, st) ==
    IF Len(sorted) = 0 THEN st
    ELSE LET name == sorted[1].node.name
             Patched(a, pr) ==
                 IF ~pr.ok
                 THEN [st EXCEPT !.failed = MapSet(@, name, "update pod annotation failed"),
                                 !.calls = @ + 1,
                                 !.attempts = Append(@, pr.attempts)]
                 ELSE [st EXCEPT !.success = TRUE,
                                 !.filtered = Append(@, name),
                                 !.calls = @ + 1,
                                 !.attempts = Append(@, pr.attempts),
                                 !.patch = annotationMapOf(a.ann)]
             Allocated(a) ==
                 IF ~a.ok
                 THEN [st EXCEPT !.failed = MapSet(@, name, "does not match")]
                 ELSE Patched(a, patchPodWithAnnotations(api[st.calls + 1]))
         IN WalkNodeInfos(Tail(sorted), pod, api, now,
                IF st.success
                THEN [st EXCEPT !.failed = MapSet(@, name, "matched to another node")]
                ELSE Allocated(Allocate(sorted[1], pod, now)))

\* GPUFilter.deviceFilter: [filtered, failed, err, panic, success, calls,
\* attempts, patch].  errorOnPredicated tells the two builds apart: the
\* plain build returns an error for a predicated pod, the quota build
\* returns no node and no error.
deviceFilter(pod, nodeSeq, podList, api, now, errorOnPredicated) ==
    LET none == [filtered |-> <<>>, failed |-> NoFailedNodes, err |-> "",
                 panic |-> FALSE, success |-> FALSE, calls |-> 0,
                 attempts |-> <<>>, patch |-> NoAnnotations]
        Enabled(name) == IsGPUEnabledNode(nodes[name])
        Disabled(name) == ~IsGPUEnabledNode(nodes[name])
        gpuNodes == SelectSeq(nodeSeq, Enabled)
        noGPU == [name \in Range(SelectSeq(nodeSeq, Disabled)) |-> "no GPU device"]
        views == [i \in 1..Len(gpuNodes) |->
                     NewNodeInfo(nodes[gpuNodes[i]],
                                 ListPodsOnNode(nodes[gpuNodes[i]], podList))]
    IN IF AlreadyPredicated(pod)
       THEN [none EXCEPT !.err = IF errorOnPredicated THEN "had been predicated" ELSE ""]
       ELSE IF \E i \in 1..Len(views) : views[i].panic
       THEN [none EXCEPT !.panic = TRUE]
       ELSE WalkNodeInfos(SortNodeInfos({views[i].n : i \in 1..Len(views)}),
                          pod, api, now, [none EXCEPT !.failed = noGPU])

----------------------------------------------------------------------------
(* predicate: Filter *)

NotSyncedError == "GPU quota has not been synced, please retry later"

\* the result every return of Filter starts from
NoResult ==
    [nodes |-> <<>>, failed |-> NoFailedNodes, error |-> "", panic |-> FALSE,
     stages |-> <<>>, patched |-> FALSE, patch |-> NoAnnotations, calls |-> 0,
     attempts |-> <<>>,
     quota |-> [passed |-> <<>>, failed |-> NoFailedNodes, exists |-> FALSE, models |-> {}]]

\* the filter loop of Filter once the device filter has returned d
FilterReturn(res, d) ==
    IF d.panic THEN [res EXCEPT !.panic = TRUE]
    ELSE IF d.err # "" THEN [res EXCEPT !.error = d.err, !.failed = NoFailedNodes]
    ELSE [res EXCEPT !.nodes = d.filtered,
                     !.failed = MergePatch(@, d.failed),
                     !.patched = d.success, !.patch = d.patch,
                     !.calls = d.calls, !.attempts = d.attempts]

\* GPUFilter.Filter of the plain build: the device filter alone
FilterPlain(pod, nodeSeq, order, api, now) ==
    IF ~IsGPURequiredPod(pod) THEN [NoResult EXCEPT !.nodes = nodeSeq]
    ELSE FilterReturn([NoResult EXCEPT !.stages = <<"deviceFilter">>],
                      deviceFilter(pod, nodeSeq, ListAllPods(order), api, now, TRUE))

\* a variant of FilterQuota without the not-synced gate
FilterQuotaUngated(pod, nodeSeq, order, api, now) ==
    IF ~IsGPURequiredPod(pod) THEN [NoResult EXCEPT !.nodes = nodeSeq]
    ELSE LET q == quotaFilter(pod, nodeSeq, order)
             d == deviceFilter(pod, q.passed, ListAllPods(order), api, now, FALSE)
         IN FilterReturn([NoResult EXCEPT
                             !.stages = <<"sleep", "quotaFilter", "deviceFilter">>,
                             !.quota = q,
                             !.failed = q.failed], d)

\* a variant of FilterQuota that tests the not-synced gate first
FilterQuotaGateFirst(pod, nodeSeq, order, api, now) ==
    IF Len(quotaLastSyncedRevision) = 0
    THEN [NoResult EXCEPT !.error = NotSyncedError]
    ELSE FilterQuotaUngated(pod, nodeSeq, order, api, now)

\* GPUFilter.Filter of the quota build: the not-synced gate, the sleep of
\* SkipBindTime, the quota filter, the device filter
FilterQuota(pod, nodeSeq, order, api, now) ==
    IF ~IsGPURequiredPod(pod) THEN [NoResult EXCEPT !.nodes = nodeSeq]
    ELSE IF Len(quotaLastSyncedRevision) = 0
    THEN [NoResult EXCEPT !.error = NotSyncedError]
    ELSE LET q == quotaFilter(pod, nodeSeq, order)
             d == deviceFilter(pod, q.passed, ListAllPods(order), api, now, FALSE)
         IN FilterReturn([NoResult EXCEPT
                             !.stages = <<"sleep", "quotaFilter", "deviceFilter">>,
                             !.quota = q,
                             !.failed = q.failed], d)

----------------------------------------------------------------------------
(* predicate: the quota store and its refresher *)

QuotaConfigKey == "gpu_quota"

NoQuota == [ns \in {} |-> [Quota |-> [m \in {} |-> 0], Pool |-> <<>>]]

\* a variant of setQuota that keeps the records it holds when it is given none
setQuotaKeepRecords(newQuota, resourceVersion) ==
    /\ quota' = IF newQuota = NoQuota THEN quota ELSE newQuota
    /\ quotaLastSyncedRevision' = resourceVersion

\* GPUFilter.setQuota: both fields, under the mutex
setQuota(newQuota, resourceVersion) ==
    /\ quota' = newQuota
    /\ quotaLastSyncedRevision' = resourceVersion

\* parseQuota: [ok, quota]; the value of gpu_quota is a JSON document that
\* json.Unmarshal either rejects or turns into the map it denotes
parseQuota(configData) ==
    IF QuotaConfigKey \notin DOMAIN configData THEN [ok |-> FALSE, quota |-> NoQuota]
    ELSE IF ~configData[QuotaConfigKey].valid THEN [ok |-> FALSE, quota |-> NoQuota]
    ELSE [ok |-> TRUE, quota |-> configData[QuotaConfigKey].quota]

\* GPUFilter.syncQuota, one run of the refresher
syncQuota ==
    /\ build = "quota"
    /\ last.op = "none"
    /\ IF ~configMap.present
       THEN setQuota(NoQuota, <<"none">>)
       ELSE IF Itoa(configMap.rv) = quotaLastSyncedRevision
       THEN UNCHANGED <<quota, quotaLastSyncedRevision>>
       ELSE LET r == parseQuota(configMap.data)
            IN IF ~r.ok THEN UNCHANGED <<quota, quotaLastSyncedRevision>>
               ELSE setQuota(r.quota, Itoa(configMap.rv))
    /\ UNCHANGED <<nodeInfo, build, nodes, podSpec, pods, cache, configMap, patchCount, last>>

----------------------------------------------------------------------------
(* The cluster of the model *)

Node(name, vcore, vmemory, gpuModel, pool) ==
    [name |-> name,
     capacity |-> (VCoreAnnotation :> vcore) @@ (VMemoryAnnotation :> vmemory),
     labels |-> (GPUModelLabel :> gpuModel) @@ (GPUPoolLabel :> pool)]

\* a node without the vcuda resources and without the GPU labels
PlainNode(name) ==
    [name |-> name, capacity |-> [r \in {} |-> 0], labels |-> [l \in {} |-> ""]]

Container(cores, memory) ==
    [limits |-> (VCoreAnnotation :> cores) @@ (VMemoryAnnotation :> memory)]

\* node0: two devices of 4 memory units; node1: one device; node2: no GPU
NodeTable ==
    [name \in {"node0", "node1", "node2"} |->
        CASE name = "node0" -> Node("node0", 2 * HundredCore, 8, "M40", "public")
          [] name = "node1" -> Node("node1", HundredCore, 4, "P100", "wx")
          [] OTHER -> PlainNode("node2")]

\* pod0: one whole GPU; pod1: two halves of a GPU
PodTable ==
    [p \in {"pod0", "pod1"} |->
        CASE p = "pod0" -> [ns |-> "nsA", containers |-> <<Container(HundredCore, 0)>>]
          [] OTHER -> [ns |-> "nsA",
                       containers |-> <<Container(50, 2), Container(50, 1)>>]]

NamespaceQuota(limits, pools) == [Quota |-> limits, Pool |-> pools]

NoData == [k \in {} |-> [valid |-> FALSE, quota |-> NoQuota]]

NoConfigMap == [present |-> FALSE, rv |-> 0, data |-> NoData]

\* the configmap of the deployment: missing, or a quota of one M40 and one
\* P100 for namespace nsA, in any pool or in pool "public" alone
ConfigMaps ==
    LET cm(q) == [present |-> TRUE, rv |-> 1,
                  data |-> (QuotaConfigKey :> [valid |-> TRUE, quota |-> q])]
        limits == ("M40" :> 1) @@ ("P100" :> 1)
    IN { NoConfigMap,
         cm("nsA" :> NamespaceQuota(limits, <<>>)),
         cm("nsA" :> NamespaceQuota(limits, <<"public">>)) }

\* how the API server can answer the Patch calls of one poll
PatchScripts == { <<"nil">>, <<"Conflict", "nil">>, <<"Forbidden">>, <<"ServerTimeout">> }

\* the candidate lists of the requests: no node, one GPU node, every node
CandidateLists == { {}, {"node0"}, {"node1"}, {"node0", "node1", "node2"} }

Pods == DOMAIN podSpec

\* no allocator at work
NoNodeInfo == <<>>

NoRequest ==
    [op |-> "none", pod |-> "", cands |-> {}, reqAnn |-> NoAnnotations,
     order |-> <<>>, api |-> <<>>, res |-> NoResult]

Init ==
    /\ build \in {"quota", "plain"}
    /\ nodes = NodeTable
    /\ podSpec = PodTable
    /\ pods = [p \in DOMAIN PodTable |->
                  [nodeName |-> "", phase |-> PodPending, ann |-> NoAnnotations]]
    /\ cache = pods
    /\ configMap \in IF build = "quota" THEN ConfigMaps ELSE {NoConfigMap}
    /\ quota = NoQuota
    /\ quotaLastSyncedRevision = <<>>
    /\ patchCount = [p \in DOMAIN PodTable |-> 0]
    /\ last = NoRequest
    /\ nodeInfo = NoNodeInfo

\* the annotations a request for pod p can carry: those the API server
\* holds, none of them (the sender's copy predates the patch), or one alone
RequestAnnotations(p) ==
    {NoAnnotations, pods[p].ann}
        \cup {[k \in {key} |-> pods[p].ann[k]] : key \in DOMAIN pods[p].ann}

\* the pod object of a request for pod p: pending and unbound
RequestPod(p, reqAnn) ==
    [name |-> p, ns |-> podSpec[p].ns, containers |-> podSpec[p].containers,
     nodeName |-> "", phase |-> PodPending, ann |-> reqAnn]

\* GPUFilter.Filter of the build that runs
FilterResult(pod, nodeSeq, order, api) ==
    IF build = "plain"
    THEN FilterPlain(pod, nodeSeq, order, api, 0)
    ELSE FilterQuota(pod, nodeSeq, order, api, 0)

PatchFails(script) == ~patchPodWithAnnotations(script).ok

\* the answers of the API server to the polls of one request that makes up
\* to k of them: a poll follows only polls that failed
PatchAnswers(k) ==
    UNION {{api \in [1..n -> PatchScripts] :
               /\ \A i \in 1..(n - 1) : PatchFails(api[i])
               /\ n < k => ~PatchFails(api[n])} : n \in (IF k = 0 THEN {0} ELSE 1..k)}

\* the polls of the request when every one of them fails
PollsWanted(pod, nodeSeq, order) ==
    FilterResult(pod, nodeSeq, order, [i \in 1..Len(nodeSeq) |-> <<"Forbidden">>]).calls

\* the orders in which the pod lister can return its pods; the order of a
\* list shows only when two pods of it replay reservations
ListOrders ==
    IF \A p, q \in Pods : p # q => (cache[p].ann = NoAnnotations \/ cache[q].ann = NoAnnotations)
    THEN {SortNames(Pods)}
    ELSE Orders(Pods)

\* POST /scheduler/predicates for pod p with candidate nodes cands: one
\* run of PredicateRoute and Filter up to the result
Filter(p, cands, reqAnn, order) ==
    /\ last.op = "none"
    /\ pods[p].nodeName = ""
    /\ pods[p].phase = PodPending
    /\ \E api \in PatchAnswers(PollsWanted(RequestPod(p, reqAnn),
                                            SortNames(cands), order)) :
       \E r \in {FilterResult(RequestPod(p, reqAnn), SortNames(cands), order, api)} :
          /\ r.patched => SumOver(Pods, patchCount) < MaxPatches
          /\ pods' = IF r.patched
                     THEN [pods EXCEPT ![p].ann = MergePatch(@, r.patch)]
                     ELSE pods
          /\ patchCount' = IF r.patched
                           THEN [patchCount EXCEPT ![p] = @ + 1]
                           ELSE patchCount
          /\ last' = [op |-> "Filter", pod |-> p, cands |-> cands, reqAnn |-> reqAnn,
                      order |-> order, api |-> api, res |-> r]
    /\ UNCHANGED <<nodeInfo, build, nodes, podSpec, cache, configMap, quota,
                   quotaLastSyncedRevision>>

\* PredicateRoute writes the result; the request is over
Respond ==
    /\ last.op # "none"
    /\ last' = NoRequest
    /\ UNCHANGED <<nodeInfo, build, nodes, podSpec, pods, cache, configMap, quota,
                   quotaLastSyncedRevision, patchCount>>

\* the scheduler binds the pod to the node the extender accepted, and the
\* kubelet starts it
Bind(p) ==
    /\ last.op = "none"
    /\ pods[p].nodeName = ""
    /\ <<PredicateNode>> \in DOMAIN pods[p].ann
    /\ pods' = [pods EXCEPT ![p].nodeName = pods[p].ann[<<PredicateNode>>][1],
                            ![p].phase = PodRunning]
    /\ UNCHANGED <<nodeInfo, build, nodes, podSpec, cache, configMap, quota,
                   quotaLastSyncedRevision, patchCount, last>>

\* a running pod ends
Terminate(p, phase) ==
    /\ last.op = "none"
    /\ pods[p].phase = PodRunning
    /\ pods' = [pods EXCEPT ![p].phase = phase]
    /\ UNCHANGED <<nodeInfo, build, nodes, podSpec, cache, configMap, quota,
                   quotaLastSyncedRevision, patchCount, last>>

\* the pod informer delivers the current object of pod p to the cache
Informer(p) ==
    /\ last.op = "none"
    /\ cache[p] # pods[p]
    /\ cache' = [cache EXCEPT ![p] = pods[p]]
    /\ UNCHANGED <<nodeInfo, build, nodes, podSpec, pods, configMap, quota,
                   quotaLastSyncedRevision, patchCount, last>>

Next ==
    \/ \E p \in Pods, cands \in CandidateLists :
         \E reqAnn \in RequestAnnotations(p), order \in ListOrders :
           Filter(p, cands, reqAnn, order)
    \/ Respond
    \/ \E p \in Pods : Bind(p)
    \/ \E p \in Pods, phase \in {PodSucceeded, PodFailed} : Terminate(p, phase)
    \/ \E p \in Pods : Informer(p)
    \/ syncQuota

Spec == Init /\ [][Next]_vars

----------------------------------------------------------------------------
(* A second cluster: one pending pod whose containers carry any of the    *)
(* limits below, and a quota configmap that its owner can delete.         *)

\* the vcuda limits of one container: no core, half a device, a device;
\* no memory, two units
ContainerShapes == {Container(c, m) : c \in {0, 50, HundredCore}, m \in {0, 2}}

\* the containers of the pod: one or two of them
PodShapes ==
    {<<a>> : a \in ContainerShapes} \cup {<<a, b>> : a, b \in ContainerShapes}

InitOnePod ==
    /\ build \in {"quota", "plain"}
    /\ nodes = NodeTable
    /\ podSpec \in {[p \in {"pod0"} |-> [ns |-> "nsA", containers |-> cs]] :
                       cs \in PodShapes}
    /\ pods = [p \in {"pod0"} |->
                  [nodeName |-> "", phase |-> PodPending, ann |-> NoAnnotations]]
    /\ cache = pods
    /\ configMap \in IF build = "quota" THEN ConfigMaps ELSE {NoConfigMap}
    /\ quota = NoQuota
    /\ quotaLastSyncedRevision = <<>>
    /\ patchCount = [p \in {"pod0"} |-> 0]
    /\ last = NoRequest
    /\ nodeInfo = NoNodeInfo

\* the configmap is deleted; the lister answers "not found" from then on
DeleteConfigMap ==
    /\ last.op = "none"
    /\ configMap.present
    /\ configMap' = NoConfigMap
    /\ UNCHANGED <<nodeInfo, build, nodes, podSpec, pods, cache, quota,
                   quotaLastSyncedRevision, patchCount, last>>

NextOnePod ==
    \/ \E p \in Pods, cands \in CandidateLists :
         \E reqAnn \in RequestAnnotations(p), order \in ListOrders :
           Filter(p, cands, reqAnn, order)
    \/ Respond
    \/ \E p \in Pods : Informer(p)
    \/ syncQuota
    \/ DeleteConfigMap

SpecOnePod == InitOnePod /\ [][NextOnePod]_vars

----------------------------------------------------------------------------
(* The cluster of TestDeviceFilter: three nodes of two devices with four  *)
(* memory units each, and four pods that the test hands to deviceFilter   *)
(* and binds to the node it returns.                                      *)

\* testnode<i>: deviceCount * HundredCore cores, totalMemory = 8, no label
TestNodes ==
    [name \in {"node0", "node1", "node2"} |->
        [Node(name, 2 * HundredCore, 8, "", "") EXCEPT !.labels = [l \in {} |-> ""]]]

\* pod-0 .. pod-3 of testCases; a container without limits requests 0 and 0
TestPods ==
    [p \in {"pod0", "pod1", "pod2", "pod3"} |->
        [ns |-> "test-ns",
         containers |->
            CASE p = "pod0" -> <<Container(10, 1), Container(10, 1)>>
              [] p = "pod1" -> <<Container(100, 3), Container(80, 3)>>
              [] p = "pod2" -> <<Container(200, 10), Container(0, 0)>>
              [] OTHER -> <<Container(10, 2), Container(0, 0)>>]]

InitTestDeviceFilter ==
    /\ build \in {"quota", "plain"}
    /\ nodes = TestNodes
    /\ podSpec = TestPods
    /\ pods = [p \in DOMAIN TestPods |->
                  [nodeName |-> "", phase |-> PodPending, ann |-> NoAnnotations]]
    /\ cache = pods
    /\ configMap = NoConfigMap
    /\ quota = NoQuota
    /\ quotaLastSyncedRevision = <<>>
    /\ patchCount = [p \in DOMAIN TestPods |-> 0]
    /\ last = NoRequest
    /\ nodeInfo = NoNodeInfo

\* gpuFilter.deviceFilter(pod, nodeList) on the pod that Create returned and
\* the three nodes, once the pod of the iteration before is bound and the
\* lister has had its two seconds to sync; the fake clientset answers every
\* Patch call with nil
CallDeviceFilter(p, order) ==
    /\ last.op = "none"
    /\ pods[p].ann = NoAnnotations
    /\ \A q \in Pods : pods[q].ann # NoAnnotations => pods[q].nodeName # ""
    /\ cache = pods
    /\ \E api \in {[i \in 1..3 |-> <<"nil">>]} :
       \E r \in {FilterReturn([NoResult EXCEPT !.stages = <<"deviceFilter">>],
                     deviceFilter(RequestPod(p, NoAnnotations),
                                  SortNames(DOMAIN nodes), ListAllPods(order),
                                  api, 0, build = "plain"))} :
          /\ pods' = IF r.patched
                     THEN [pods EXCEPT ![p].ann = MergePatch(@, r.patch)]
                     ELSE pods
          /\ patchCount' = IF r.patched
                           THEN [patchCount EXCEPT ![p] = @ + 1]
                           ELSE patchCount
          /\ last' = [op |-> "deviceFilter", pod |-> p, cands |-> DOMAIN nodes,
                      reqAnn |-> NoAnnotations, order |-> order, api |-> api,
                      res |-> r]
    /\ UNCHANGED <<nodeInfo, build, nodes, podSpec, cache, configMap, quota,
                   quotaLastSyncedRevision>>

NextTestDeviceFilter ==
    \/ \E p \in Pods, order \in ListOrders : CallDeviceFilter(p, order)
    \/ Respond
    \/ \E p \in Pods : Informer(p)
    \/ \E p \in Pods : Bind(p)

SpecTestDeviceFilter == InitTestDeviceFilter /\ [][NextTestDeviceFilter]_vars

----------------------------------------------------------------------------
(* A third specification: one NodeInfo from its construction on.  Each    *)
(* step is one reservation of the replay loop of NewNodeInfo or one call  *)
(* of allocator.AllocateOne; last holds the call and what it returned.    *)

\* the vcuda limits of the containers that are replayed or allocated: no
\* core, a share of a device, one device, two devices
Requests ==
    {Container(c, m) : c \in {0, 30, 50, HundredCore, 2 * HundredCore}, m \in {0, 1, 3}}

DeviceTotalMemory(n) == n.totalMemory \div n.deviceCount

InitNodeInfo ==
    /\ build = "plain"
    /\ nodes = NodeTable
    /\ podSpec = PodTable
    /\ pods = [p \in DOMAIN PodTable |->
                  [nodeName |-> "", phase |-> PodPending, ann |-> NoAnnotations]]
    /\ cache = pods
    /\ configMap = NoConfigMap
    /\ quota = NoQuota
    /\ quotaLastSyncedRevision = <<>>
    /\ patchCount = [p \in DOMAIN PodTable |-> 0]
    /\ last = NoRequest
    /\ nodeInfo \in {NewNodeInfo(nodes[name], <<>>).n :
                        name \in {m \in DOMAIN nodes : IsGPUEnabledNode(nodes[m])}}

\* the replay loop of NewNodeInfo reaches index of the annotation of
\* container c of a pod on the node
Replay(c, index) ==
    /\ last' = [op |-> "Replay", container |-> c, index |-> index, before |-> nodeInfo]
    /\ nodeInfo' = ReplayIndex([panic |-> FALSE, n |-> nodeInfo], index, c,
                               nodeInfo.deviceCount, DeviceTotalMemory(nodeInfo)).n
    /\ UNCHANGED <<build, nodes, podSpec, pods, cache, configMap, quota,
                   quotaLastSyncedRevision, patchCount>>

\* Allocate or IsAllocatable calls AllocateOne for the GPU container c
CallAllocateOne(c) ==
    /\ IsGPURequiredContainer(c)
    /\ \E r \in {AllocateOne(nodeInfo, c)} :
          /\ last' = [op |-> "AllocateOne", container |-> c, before |-> nodeInfo,
                      ok |-> r.ok, devs |-> r.devs]
          /\ nodeInfo' = r.n
    /\ UNCHANGED <<build, nodes, podSpec, pods, cache, configMap, quota,
                   quotaLastSyncedRevision, patchCount>>

NextNodeInfo ==
    \/ \E c \in Requests, index \in 0..nodeInfo.deviceCount : Replay(c, index)
    \/ \E c \in Requests : CallAllocateOne(c)

SpecNodeInfo == InitNodeInfo /\ [][NextNodeInfo]_vars

----------------------------------------------------------------------------
(* A fourth specification: one run of wait.PollImmediate inside            *)
(* patchPodWithAnnotations, attempt by attempt.  last holds the answers of *)
(* the API server to the Patch calls so far and the outcome of the poll.  *)

\* what the API server answers to a Patch call
PatchErrors == {"nil", "Conflict", "ServerTimeout", "Forbidden"}

InitPoll ==
    /\ build = "plain"
    /\ nodes = NodeTable
    /\ podSpec = PodTable
    /\ pods = [p \in DOMAIN PodTable |->
                  [nodeName |-> "", phase |-> PodPending, ann |-> NoAnnotations]]
    /\ cache = pods
    /\ configMap = NoConfigMap
    /\ quota = NoQuota
    /\ quotaLastSyncedRevision = <<>>
    /\ patchCount = [p \in DOMAIN PodTable |-> 0]
    /\ nodeInfo = NoNodeInfo
    /\ last = [op |-> "Poll", answers |-> <<>>, done |-> FALSE, ok |-> FALSE]

\* the condition function of the poll runs once: one Patch call, answered err
PollCondition(err) ==
    /\ last.op = "Poll"
    /\ ~last.done
    /\ Len(last.answers) < PollAttempts
    /\ last' = [last EXCEPT !.answers = Append(@, err),
                            !.done = (err = "nil" \/ ~ShouldRetry(err)),
                            !.ok = (err = "nil")]
    /\ UNCHANGED <<nodeInfo, build, nodes, podSpec, pods, cache, configMap, quota,
                   quotaLastSyncedRevision, patchCount>>

\* the timeout of the poll passes: ErrWaitTimeout
PollTimeout ==
    /\ last.op = "Poll"
    /\ ~last.done
    /\ Len(last.answers) >= PollAttempts
    /\ last' = [last EXCEPT !.done = TRUE, !.ok = FALSE]
    /\ UNCHANGED <<nodeInfo, build, nodes, podSpec, pods, cache, configMap, quota,
                   quotaLastSyncedRevision, patchCount>>

NextPoll ==
    \/ \E err \in PatchErrors : PollCondition(err)
    \/ PollTimeout

\* the API server answers every Patch call and the clock of the poll runs
SpecPoll == InitPoll /\ [][NextPoll]_vars /\ WF_vars(NextPoll)

----------------------------------------------------------------------------
(* The request whose result awaits its response.  Filter leaves the cache *)
(* and the quota store alone, so they are what the request read.          *)

Answered == last.op = "Filter"

ThePod == RequestPod(last.pod, last.reqAnn)

ReachedDeviceFilter == Answered /\ "deviceFilter" \in Range(last.res.stages)

ReachedQuotaFilter == Answered /\ "quotaFilter" \in Range(last.res.stages)

Accepted == Range(last.res.nodes)

\* the candidates the device filter received
DeviceCandidates ==
    IF build = "plain" THEN last.cands ELSE Range(last.res.quota.passed)

\* the NodeView of candidate n
ViewOf(n) == NewNodeInfo(nodes[n], ListPodsOnNode(nodes[n], ListAllPods(last.order))).n

\* the candidate GPU nodes whose NodeView admits every GPU container of the pod
Fitting ==
    {n \in DeviceCandidates :
        IsGPUEnabledNode(nodes[n]) /\ Allocate(ViewOf(n), ThePod, 0).ok}

\* ascending (available cores, available memory, name)
KeyLess(m, n) ==
    LET a == ViewOf(m)
        b == ViewOf(n)
    IN \/ GetAvailableCore(a) < GetAvailableCore(b)
       \/ /\ GetAvailableCore(a) = GetAvailableCore(b)
          /\ GetAvailableMemory(a) < GetAvailableMemory(b)
       \/ /\ GetAvailableCore(a) = GetAvailableCore(b)
          /\ GetAvailableMemory(a) = GetAvailableMemory(b)
          /\ StringLess(m, n)

\* the API server applies a patch when it answers nil after retryable
\* errors only
ScriptSucceeds(script) ==
    \E i \in 1..Len(script) :
        /\ script[i] = "nil"
        /\ \A j \in 1..(i - 1) : script[j] \in {"Conflict", "ServerTimeout"}

\* the position of fitting node n among the fitting nodes in ascending order:
\* the number of the patch that is for n
PatchNumber(n) == 1 + Cardinality({m \in Fitting : KeyLess(m, n)})

\* the patch for node n is issued and succeeds / is issued and fails
PatchSucceeded(n) ==
    PatchNumber(n) <= Len(last.api) /\ ScriptSucceeds(last.api[PatchNumber(n)])

PatchFailed(n) ==
    PatchNumber(n) <= Len(last.api) /\ ~ScriptSucceeds(last.api[PatchNumber(n)])

\* the number of the patch that is for node n of the fitting nodes F, and
\* the nodes of F whose patch was issued and failed / succeeded
PatchNumberIn(F, n) == 1 + Cardinality({m \in F : KeyLess(m, n)})

PatchFailuresIn(F) ==
    {n \in F : /\ PatchNumberIn(F, n) <= Len(last.api)
               /\ ~ScriptSucceeds(last.api[PatchNumberIn(F, n)])}

PatchSuccessesIn(F) ==
    {n \in F : /\ PatchNumberIn(F, n) <= Len(last.api)
               /\ ScriptSucceeds(last.api[PatchNumberIn(F, n)])}

----------------------------------------------------------------------------
(* Claims *)

\* C1: the device filter accepts at most one node; it accepts exactly one
\* when some candidate GPU node admits every GPU container of the pod and
\* the patch for that node succeeds, and none otherwise (a request stopped
\* by the already-predicated guard issues no patch).
C1_AtMostOneNode ==
    ReachedDeviceFilter =>
        /\ Len(last.res.nodes) <= 1
        /\ Len(last.res.nodes) = 1 <=> PatchSuccessesIn(Fitting) # {}

\* two candidates fit, the patch for the first fails, the second is accepted
C1_Witness ==
    /\ ReachedDeviceFilter
    /\ Cardinality(Fitting) = 2
    /\ Len(last.res.nodes) = 1
    /\ \E n \in Fitting : PatchFailed(n)

LeastPatchedIn(F) ==
    \A n \in Accepted :
        /\ n \in F
        /\ \A m \in F :
              KeyLess(m, n) =>
                  /\ m \in PatchFailuresIn(F)
                  /\ m \in DOMAIN last.res.failed
                  /\ last.res.failed[m] = "update pod annotation failed"

C3_AcceptedNodeIsPatched ==
    (Answered /\ IsGPURequiredPod(ThePod)) =>
        \A n \in Accepted :
            LET ann == pods[last.pod].ann
            IN /\ <<PredicateNode>> \in DOMAIN ann
               /\ ann[<<PredicateNode>>] = <<n>>
               /\ <<GPUAssigned>> \in DOMAIN ann
               /\ ann[<<GPUAssigned>>] = <<"false">>
               /\ <<PredicateTimeAnnotation>> \in DOMAIN ann
               /\ last.res.patched
               /\ PatchSucceeded(n)
               /\ ~PatchFailed(n)

\* a node is accepted in a request in which the patch for another node failed
C3_Witness ==
    /\ Answered
    /\ IsGPURequiredPod(ThePod)
    /\ Len(last.res.nodes) = 1
    /\ \E m \in Fitting : PatchFailed(m) /\ m \notin Accepted

\* the request object carries an annotation whose key contains name
Carries(name) == \E k \in DOMAIN last.reqAnn : Contains(k, name)

\* the request accepts no node and issues no patch
NothingAcceptedNothingPatched ==
    /\ Len(last.res.nodes) = 0
    /\ ~last.res.patched
    /\ last.res.calls = 0

\* C4 as stated: a GPU pod whose request object carries predicate-node,
\* predicate-time, gpu-assigned or a predicate-gpu-idx-<i> annotation is
\* never accepted and never patched.
C4_AnyPlacementAnnotation ==
    (/\ Answered
     /\ IsGPURequiredPod(ThePod)
     /\ \/ Carries(PredicateNode)
        \/ Carries(PredicateTimeAnnotation)
        \/ Carries(GPUAssigned)
        \/ Carries(PredicateGPUIndexPrefix)) => NothingAcceptedNothingPatched

\* C4, amended: a GPU pod whose request object carries predicate-time,
\* gpu-assigned or a predicate-gpu-idx-<i> annotation is never accepted and
\* never patched; predicate-node alone does not stop the request.
C4_GuardedAnnotation ==
    (/\ Answered
     /\ IsGPURequiredPod(ThePod)
     /\ \/ Carries(PredicateTimeAnnotation)
        \/ Carries(GPUAssigned)
        \/ Carries(PredicateGPUIndexPrefix)) => NothingAcceptedNothingPatched

\* a request that carries a predicate-gpu-idx-<i> annotation and nothing
\* else, for candidates one of which would fit the pod
C4_Witness ==
    /\ ReachedDeviceFilter
    /\ Carries(PredicateGPUIndexPrefix)
    /\ Cardinality(DOMAIN last.reqAnn) = 1
    /\ Fitting # {}
    /\ NothingAcceptedNothingPatched

\* C5: over any sequence of requests for one pod, stale retries included,
\* the placement annotations of the pod are written at most once.
C5_PredicatedAtMostOnce == \A p \in Pods : patchCount[p] <= 1

\* the vcuda-core request of pod p
PodCores(p) ==
    SeqSum([i \in 1..Len(podSpec[p].containers) |->
               podSpec[p].containers[i].limits[VCoreAnnotation]])

\* the vcuda-core total of the pods of namespace ns that the map view holds
\* bound to a node labelled gpu-model = m and neither Failed nor Succeeded
CoresInUse(view, ns, m) ==
    SumOver({p \in Pods :
                /\ podSpec[p].ns = ns
                /\ view[p].nodeName \in ListNodesOfModel(m)
                /\ view[p].phase \notin {PodFailed, PodSucceeded}},
            [p \in Pods |-> PodCores(p)])

\* C6: admissions of pods that compete for one quota take effect in the
\* order schedule, bind, schedule, bind, so that after any interleaving of
\* requests and binds the vcuda-core total of a namespace's non-terminal
\* pods on nodes of model m is at most limit[m] * 100.
C6_QuotaNeverExceeded ==
    \A ns \in DOMAIN quota :
        \A m \in DOMAIN quota[ns].Quota :
            CoresInUse(pods, ns, m) <= quota[ns].Quota[m] * HundredCore

\* C7: with a quota record for the pod's namespace, the quota filter accepts
\* model m exactly when the vcuda-core total of the namespace's pods that
\* the informer cache holds bound to nodes labelled gpu-model = m, Failed
\* and Succeeded ones left out, plus the pod's own request is at most
\* limits[m] * 100.
C7_ModelWithinQuota ==
    (ReachedQuotaFilter /\ ThePod.ns \in DOMAIN quota) =>
        /\ last.res.quota.exists
        /\ \A m \in DOMAIN quota[ThePod.ns].Quota :
              m \in last.res.quota.models
                  <=> CoresInUse(cache, ThePod.ns, m) + PodCores(last.pod)
                          <= quota[ThePod.ns].Quota[m] * HundredCore

\* one model is accepted at exactly its limit while another, in use by a
\* bound pod, is refused
C7_Witness ==
    /\ ReachedQuotaFilter
    /\ ThePod.ns \in DOMAIN quota
    /\ \E m \in last.res.quota.models :
          CoresInUse(cache, ThePod.ns, m) + PodCores(last.pod)
              = quota[ThePod.ns].Quota[m] * HundredCore
    /\ \E m \in DOMAIN quota[ThePod.ns].Quota :
          /\ m \notin last.res.quota.models
          /\ CoresInUse(cache, ThePod.ns, m) > 0

\* candidate n carries label key with one of values
HasLabelIn(n, key, values) ==
    key \in DOMAIN nodes[n].labels /\ nodes[n].labels[key] \in values

\* C8: with a quota record, a candidate passes the quota filter iff its
\* gpu-model label is an accepted model and the record's pool list is empty
\* or holds its gpu-pool label; every other candidate is failed with
\* ExceedsGPUQuota; no accepted model, no node passed.
C8_NodesByModelAndPool ==
    (ReachedQuotaFilter /\ ThePod.ns \in DOMAIN quota) =>
        LET pools == Range(quota[ThePod.ns].Pool)
            Passes(n) == /\ HasLabelIn(n, GPUModelLabel, last.res.quota.models)
                         /\ (pools = {} \/ HasLabelIn(n, GPUPoolLabel, pools))
        IN /\ Range(last.res.quota.passed) = {n \in last.cands : Passes(n)}
           /\ DOMAIN last.res.quota.failed = {n \in last.cands : ~Passes(n)}
           /\ \A n \in DOMAIN last.res.quota.failed :
                 last.res.quota.failed[n] = "ExceedsGPUQuota"
           /\ last.res.quota.models = {} => Len(last.res.quota.passed) = 0

\* a node of an accepted model is failed for its pool while another passes
C8_Witness ==
    /\ ReachedQuotaFilter
    /\ ThePod.ns \in DOMAIN quota
    /\ Len(quota[ThePod.ns].Pool) > 0
    /\ Len(last.res.quota.passed) > 0
    /\ \E n \in DOMAIN last.res.quota.failed :
          HasLabelIn(n, GPUModelLabel, last.res.quota.models)

\* C9: without a quota record for the pod's namespace the quota filter
\* passes every candidate on, in the order given, and fails none, whatever
\* the namespace uses.
C9_NoRecordPassesAll ==
    (ReachedQuotaFilter /\ ThePod.ns \notin DOMAIN quota) =>
        /\ ~last.res.quota.exists
        /\ last.res.quota.passed = SortNames(last.cands)
        /\ DOMAIN last.res.quota.failed = {}

\* no record, and a pod of the namespace runs on a GPU node
C9_Witness ==
    /\ ReachedQuotaFilter
    /\ ThePod.ns \notin DOMAIN quota
    /\ Cardinality(last.cands) = 3
    /\ \E p \in Pods : podSpec[p].ns = ThePod.ns /\ cache[p].nodeName # ""

\* C10: until the quota store has synced once, a Filter call for a GPU pod
\* fails as a whole with the retry-later error: no node accepted, no result
\* for any node, no patch.
C10_NotSyncedRefuses ==
    (/\ Answered
     /\ build = "quota"
     /\ Len(quotaLastSyncedRevision) = 0
     /\ IsGPURequiredPod(ThePod)) =>
        /\ last.res.error = NotSyncedError
        /\ Len(last.res.nodes) = 0
        /\ DOMAIN last.res.failed = {}
        /\ ~last.res.patched
        /\ last.res.calls = 0
        /\ pods[last.pod].ann = NoAnnotations

\* a request with candidates that would fit is refused before the first sync
C10_Witness ==
    /\ Answered
    /\ build = "quota"
    /\ Len(quotaLastSyncedRevision) = 0
    /\ IsGPURequiredPod(ThePod)
    /\ Cardinality(last.cands) = 3
    /\ last.res.error = NotSyncedError

----------------------------------------------------------------------------
\* C11: once the refresher has found the configmap absent, the store is
\* empty and counts as synced: a GPU pod's request is not refused as
\* not-synced, and its quota filter finds no record for the namespace and
\* passes every candidate, whatever record the store held before.
C11_AbsentConfigMapUnlimited ==
    quotaLastSyncedRevision = <<"none">> =>
        /\ quota = NoQuota
        /\ (Answered /\ IsGPURequiredPod(ThePod)) =>
              /\ last.res.error # NotSyncedError
              /\ ReachedQuotaFilter
              /\ ~last.res.quota.exists
              /\ last.res.quota.passed = SortNames(last.cands)

\* a GPU pod of nsA answered after the refresher found the configmap absent,
\* with a candidate the deleted record would have refused (pool "wx")
C11_Witness ==
    /\ Answered
    /\ IsGPURequiredPod(ThePod)
    /\ quotaLastSyncedRevision = <<"none">>
    /\ "node1" \in Range(last.res.quota.passed)
    /\ last.res.error = ""

----------------------------------------------------------------------------
\* C12: in every state of a NodeInfo, while reservations are replayed and
\* while containers are allocated, every device has between 0 and 100
\* used cores and between 0 and its total memory of used memory.
C12_DeviceWithinCeilings ==
    \A i \in DOMAIN nodeInfo.devs :
        /\ 0 <= nodeInfo.devs[i].usedCore
        /\ nodeInfo.devs[i].usedCore <= HundredCore
        /\ 0 <= nodeInfo.devs[i].usedMemory
        /\ nodeInfo.devs[i].usedMemory <= nodeInfo.devs[i].totalMemory

\* a reservation was refused for memory on a device with cores to spare
C12_Witness ==
    /\ last.op = "Replay"
    /\ last.index \in DOMAIN nodeInfo.devs
    /\ nodeInfo = last.before
    /\ LET d == nodeInfo.devs[last.index]
           c == last.container.limits
       IN /\ c[VCoreAnnotation] + d.usedCore <= HundredCore
          /\ c[VMemoryAnnotation] + d.usedMemory > d.totalMemory
          /\ d.usedMemory > 0

\* C13: the used cores and the used memory of a NodeInfo are the sums of
\* the used cores and the used memory of its devices, also after a
\* reservation that was refused.
C13_AggregatesAreSums ==
    /\ nodeInfo.usedCore = SumOver(DOMAIN nodeInfo.devs, [i \in DOMAIN nodeInfo.devs |-> nodeInfo.devs[i].usedCore])
    /\ nodeInfo.usedMemory = SumOver(DOMAIN nodeInfo.devs, [i \in DOMAIN nodeInfo.devs |-> nodeInfo.devs[i].usedMemory])

\* an allocation of two devices was refused on a node that holds reservations
C13_Witness ==
    /\ last.op = "AllocateOne"
    /\ ~last.ok
    /\ nodeInfo.usedCore > 0
    /\ nodeInfo.usedMemory > 0
    /\ nodeInfo.deviceCount = 2

----------------------------------------------------------------------------
\* the predicate-gpu-idx keys among annotations, and the keys of the
\* GPU-requesting containers of a pod, by 0-based position
IndexKeysIn(ann) == {k \in DOMAIN ann : Contains(k, PredicateGPUIndexPrefix)}

IndexKeysOf(containers) ==
    {GPUIndexKey(i - 1) :
        i \in {j \in 1..Len(containers) : IsGPURequiredContainer(containers[j])}}

\* C14: an annotated pod carries one predicate-gpu-idx-<i> key for each
\* GPU-requesting container, i the position of the container, and none for
\* another container; the patch of a request names a node only when every
\* GPU-requesting container of the pod was placed on that node.
C14_OneKeyPerGPUContainer ==
    /\ \A p \in Pods :
          pods[p].ann # NoAnnotations =>
              IndexKeysIn(pods[p].ann) = IndexKeysOf(podSpec[p].containers)
    /\ (Answered /\ last.res.patched) =>
          /\ IndexKeysIn(last.res.patch) = IndexKeysOf(ThePod.containers)
          /\ \A n \in last.cands :
                last.res.patch[<<PredicateNode>>] = <<n>> =>
                    AllocateContainers(ViewOf(n), ThePod, 0, NoAnnotations).ok

\* a pod whose first container requests no GPU and whose second does is
\* patched for node0: the one key it carries is that of position 1
C14_Witness ==
    /\ Answered
    /\ last.res.patched
    /\ last.cands = {"node0", "node1", "node2"}
    /\ Cardinality(IndexKeysOf(ThePod.containers)) = 1
    /\ Len(ThePod.containers) = 2
    /\ IndexKeysIn(pods[last.pod].ann) = {GPUIndexKey(1)}
    /\ last.res.patch[<<PredicateNode>>] = <<"node0">>

----------------------------------------------------------------------------
\* the request of the AllocateOne call that led here
NeedCores == last.container.limits[VCoreAnnotation]

NeedMemory == last.container.limits[VMemoryAnnotation]

\* the devices of the NodeInfo before the call that have the cores and the
\* memory of the request to spare
FitsRequest ==
    {i \in DOMAIN last.before.devs :
        /\ HundredCore - last.before.devs[i].usedCore >= NeedCores
        /\ last.before.devs[i].totalMemory - last.before.devs[i].usedMemory >= NeedMemory}

\* device i precedes device j: fewer spare cores, then less spare memory,
\* then the smaller id
SparePrecedes(i, j) ==
    LET a == last.before.devs[i]
        b == last.before.devs[j]
    IN \/ a.usedCore > b.usedCore
       \/ /\ a.usedCore = b.usedCore
          /\ a.totalMemory - a.usedMemory < b.totalMemory - b.usedMemory
       \/ /\ a.usedCore = b.usedCore
          /\ a.totalMemory - a.usedMemory = b.totalMemory - b.usedMemory
          /\ i < j

\* the NodeInfo before the call with (cores, memory) more in use on the
\* devices ids
ChargedOn(ids, cores, memory) ==
    [last.before EXCEPT
        !.devs = [i \in DOMAIN last.before.devs |->
                     IF i \in ids
                     THEN [last.before.devs[i] EXCEPT !.usedCore = @ + cores,
                                                      !.usedMemory = @ + memory]
                     ELSE last.before.devs[i]],
        !.usedCore = @ + cores * Cardinality(ids),
        !.usedMemory = @ + memory * Cardinality(ids)]

\* C15: for a request below 100 cores AllocateOne returns one device, the
\* first in ascending (spare cores, spare memory, id) among the devices
\* that have both the cores and the memory to spare, and charges the
\* request on it; it fails, and charges nothing, when no single device has
\* both.  The answer is a function of the NodeInfo and the request.
C15_ShareModeLeastFit ==
    (last.op = "AllocateOne" /\ NeedCores < HundredCore) =>
        IF FitsRequest = {}
        THEN ~last.ok /\ last.devs = <<>> /\ nodeInfo = last.before
        ELSE /\ last.ok
             /\ Len(last.devs) = 1
             /\ last.devs[1].id \in FitsRequest
             /\ last.devs[1] = last.before.devs[last.devs[1].id]
             /\ \A j \in FitsRequest \ {last.devs[1].id} :
                   SparePrecedes(last.devs[1].id, j)
             /\ nodeInfo = ChargedOn({last.devs[1].id}, NeedCores, NeedMemory)

\* a share request that two devices could take is answered with device 1,
\* which has less to spare than device 0
C15_Witness ==
    /\ last.op = "AllocateOne"
    /\ NeedCores < HundredCore
    /\ last.ok
    /\ FitsRequest = {0, 1}
    /\ last.devs[1].id = 1

\* a share request is refused on a node whose devices together have the
\* cores and the memory it asks for
C15_RefusedThoughSumFits ==
    /\ last.op = "AllocateOne"
    /\ NeedCores < HundredCore
    /\ ~last.ok
    /\ GetAvailableCore(last.before) >= NeedCores
    /\ GetAvailableMemory(last.before) >= NeedMemory

----------------------------------------------------------------------------
\* the devices of the NodeInfo before the call with no core in use
FreeDevices == {i \in DOMAIN last.before.devs : last.before.devs[i].usedCore = 0}

\* the ids of the devices the call returned
ReturnedIDs == {last.devs[k].id : k \in 1..Len(last.devs)}

\* C16: for a request of n * 100 cores (n >= 1) AllocateOne fails when
\* fewer than n devices have no core in use; when it succeeds it returns n
\* distinct devices that had neither cores nor memory in use and charges
\* 100 cores and the whole memory of a device on each, whatever memory the
\* container asked for; it succeeds when n devices are free and no device
\* without cores in use has memory in use.
C16_ExclusiveModeFreeDevices ==
    (last.op = "AllocateOne" /\ NeedCores >= HundredCore
                            /\ NeedCores % HundredCore = 0) =>
        LET n == NeedCores \div HundredCore
        IN /\ Cardinality(FreeDevices) < n => (~last.ok /\ nodeInfo = last.before)
           /\ last.ok =>
                /\ Len(last.devs) = n
                /\ Cardinality(ReturnedIDs) = n
                /\ \A i \in ReturnedIDs :
                      /\ i \in FreeDevices
                      /\ last.before.devs[i].usedMemory = 0
                /\ nodeInfo = ChargedOn(ReturnedIDs, HundredCore,
                                        DeviceTotalMemory(last.before))
           /\ (/\ Cardinality(FreeDevices) >= n
               /\ \A i \in FreeDevices : last.before.devs[i].usedMemory = 0)
                 => last.ok

\* a request of 200 cores and 1 unit of memory takes both devices of the
\* node and the whole memory of each
C16_Witness ==
    /\ last.op = "AllocateOne"
    /\ NeedCores = 2 * HundredCore
    /\ NeedMemory = 1
    /\ last.ok
    /\ ReturnedIDs = {0, 1}
    /\ nodeInfo.usedMemory = nodeInfo.totalMemory

\* a request of 100 cores is refused on a node with a free device, because
\* a device with memory but no core in use precedes it
C16_RefusedThoughDeviceFree ==
    /\ last.op = "AllocateOne"
    /\ NeedCores = HundredCore
    /\ ~last.ok
    /\ \E i \in FreeDevices : last.before.devs[i].usedMemory = 0

----------------------------------------------------------------------------
\* C17: the request of a pod that requests no GPU is answered with the
\* candidate list as it came, no failed node and no error, in either build
\* and whether or not the quota store has synced; no filter runs, no
\* NodeInfo is built and nothing is patched, so such a pod never carries an
\* annotation.
C17_NoGPUPassThrough ==
    /\ (Answered /\ ~IsGPURequiredPod(ThePod)) =>
          /\ last.res.nodes = SortNames(last.cands)
          /\ last.res.failed = NoFailedNodes
          /\ last.res.error = ""
          /\ ~last.res.panic
          /\ last.res.stages = <<>>
          /\ last.res.calls = 0
          /\ ~last.res.patched
    /\ \A p \in Pods :
          ~IsGPURequiredPod(PodObject(p, pods)) =>
              pods[p].ann = NoAnnotations /\ patchCount[p] = 0

\* a pod without GPU request is answered with its three candidates by the
\* quota build before the quota store has synced
C17_Witness ==
    /\ Answered
    /\ ~IsGPURequiredPod(ThePod)
    /\ build = "quota"
    /\ quotaLastSyncedRevision = <<>>
    /\ last.cands = {"node0", "node1", "node2"}
    /\ Len(last.res.nodes) = 3

----------------------------------------------------------------------------
\* a container requests GPU: cores > 0 and (cores >= 100 or memory > 0)
ContainerRequestsGPU(c) ==
    /\ c.limits[VCoreAnnotation] > 0
    /\ \/ c.limits[VCoreAnnotation] >= HundredCore
       \/ c.limits[VMemoryAnnotation] > 0

HasGPUContainer(containers) ==
    \E i \in 1..Len(containers) : ContainerRequestsGPU(containers[i])

\* the request did not take the pass-through: it met the not-synced gate or
\* ran the filters
TreatedAsGPUPod == last.res.error = NotSyncedError \/ last.res.stages # <<>>

\* C18: Filter treats a pod as GPU-requesting exactly when one of its
\* containers requests GPU; a pod without such a container takes the
\* pass-through and is never annotated.
C18_GPUPodIffGPUContainer ==
    /\ Answered => (TreatedAsGPUPod <=> HasGPUContainer(ThePod.containers))
    /\ \A p \in Pods :
          ~HasGPUContainer(podSpec[p].containers) => pods[p].ann = NoAnnotations

----------------------------------------------------------------------------
PatchFailureSkipsNodeIn(F) ==
    \A n \in PatchFailuresIn(F) :
        /\ n \in DOMAIN last.res.failed
        /\ last.res.failed[n] = "update pod annotation failed"
        /\ n \notin Accepted
        /\ \A m \in F :
              PatchNumberIn(F, m) = PatchNumberIn(F, n) + 1
                  => last.res.calls >= PatchNumberIn(F, m)
        /\ Accepted = PatchSuccessesIn(F)
        /\ \A m \in Accepted : KeyLess(n, m)

----------------------------------------------------------------------------
\* what holds of the poll at every attempt
PollStopsInTime ==
    /\ Len(last.answers) <= 1 + waitTimeout \div pollInterval
    /\ \A i \in 1..(Len(last.answers) - 1) :
          last.answers[i] \in {"Conflict", "ServerTimeout"}
    /\ (/\ Len(last.answers) > 0
        /\ last.answers[Len(last.answers)] \notin {"Conflict", "ServerTimeout"})
          => last.done
    /\ last.done =>
          /\ last.ok <=> (Len(last.answers) > 0 /\ last.answers[Len(last.answers)] = "nil")
          /\ patchPodWithAnnotations(last.answers)
                 = [ok |-> last.ok, attempts |-> Len(last.answers)]

\* C20: a Patch call is followed by another only when it was answered
\* Conflict or ServerTimeout; the poll stops at the first success and at the
\* first other error; it makes at most 1 + 10 s / 1 s calls; and it ends,
\* with the outcome patchPodWithAnnotations returns to the request.
C20_PollEnds ==
    /\ [](last.op = "Poll" => PollStopsInTime)
    /\ <>(last.op = "Poll" /\ last.done)

\* a poll that succeeds at its third call, after Conflict and ServerTimeout
C20_Witness ==
    /\ last.op = "Poll"
    /\ last.done
    /\ last.ok
    /\ last.answers = <<"Conflict", "ServerTimeout", "nil">>

\* a poll that the timeout ends after eleven calls answered ServerTimeout
C20_TimedOut ==
    /\ last.op = "Poll"
    /\ last.done
    /\ ~last.ok
    /\ last.answers = [i \in 1..PollAttempts |-> "ServerTimeout"]

----------------------------------------------------------------------------
\* C21: a request for a pod that the already-predicated guard stops ends as
\* a decision without an accepted node and with an empty Error field, in
\* either build.
C21_PredicatedIsNoError ==
    (ReachedDeviceFilter /\ AlreadyPredicated(ThePod)) =>
        /\ Len(last.res.nodes) = 0
        /\ last.res.error = ""


----------------------------------------------------------------------------
(* The run of TestDeviceFilter *)

\* the order in which the test hands its pods to deviceFilter
ScenarioOrder == <<"pod0", "pod1", "pod2", "pod3">>

\* the node and the device indexes, by container position, that the run is
\* said to give to the first three pods
ScenarioPlacement ==
    [p \in {"pod0", "pod1", "pod2"} |->
        CASE p = "pod0" -> [node |-> "node0", idx |-> (0 :> <<"0">>) @@ (1 :> <<"0">>)]
          [] p = "pod1" -> [node |-> "node1", idx |-> (0 :> <<"0">>) @@ (1 :> <<"1">>)]
          [] OTHER -> [node |-> "node2", idx |-> (0 :> <<"0", ",", "1">>)]]

\* the annotations ann place the pod as ScenarioPlacement says
PlacedAs(ann, p) ==
    /\ IndexKeysIn(ann) = {GPUIndexKey(i) : i \in DOMAIN ScenarioPlacement[p].idx}
    /\ \A i \in DOMAIN ScenarioPlacement[p].idx :
          ann[GPUIndexKey(i)] = ScenarioPlacement[p].idx[i]
    /\ <<PredicateNode>> \in DOMAIN ann
    /\ ann[<<PredicateNode>>] = <<ScenarioPlacement[p].node>>

\* deviceFilter has returned for the k-th pod of the run: the pods before it
\* are bound and running where the run places them, the lister has caught
\* up with them, and the pods after it have not been handed in
ScenarioStep(k) ==
    /\ last.op = "deviceFilter"
    /\ last.pod = ScenarioOrder[k]
    /\ \A j \in 1..(k - 1) :
          /\ cache[ScenarioOrder[j]] = pods[ScenarioOrder[j]]
          /\ pods[ScenarioOrder[j]].nodeName = ScenarioPlacement[ScenarioOrder[j]].node
          /\ PlacedAs(pods[ScenarioOrder[j]].ann, ScenarioOrder[j])
    /\ \A j \in (k + 1)..Len(ScenarioOrder) :
          /\ pods[ScenarioOrder[j]].ann = NoAnnotations
          /\ cache[ScenarioOrder[j]].ann = NoAnnotations

\* C22: in the run of TestDeviceFilter (three nodes of two devices, the pods
\* handed in and bound one after the other) deviceFilter returns node0 for
\* pod A, node1 for pod B, node2 for pod C and node0 for pod D, and the
\* patch of A carries the indexes "0" and "0", that of B "0" and "1", that
\* of C "0,1" for its one GPU container.
C22_TestDeviceFilterRun ==
    /\ \A k \in 1..3 :
          ScenarioStep(k) =>
              /\ last.res.error = ""
              /\ last.res.nodes = <<ScenarioPlacement[ScenarioOrder[k]].node>>
              /\ PlacedAs(last.res.patch, ScenarioOrder[k])
    /\ ScenarioStep(4) =>
          /\ last.res.error = ""
          /\ last.res.nodes = <<"node0">>

\* pod D is accepted on node0 after the three pods before it were placed
\* and bound as the run says
C22_Witness ==
    /\ ScenarioStep(4)
    /\ last.res.nodes = <<"node0">>
    /\ PlacedAs(pods["pod2"].ann, "pod2")

\* C23 as stated: in the run of TestDeviceFilter pod D (10 cores, 2 memory
\* units), handed in after A, B and C were placed and bound, is accepted on
\* node0 and its container lands on device 1 of node0.
C23_PodDOnDeviceOne ==
    ScenarioStep(4) =>
        /\ last.res.nodes = <<"node0">>
        /\ GPUIndexKey(0) \in DOMAIN last.res.patch
        /\ last.res.patch[GPUIndexKey(0)] = <<"1">>

\* C23: in that run pod D is accepted on node0 and its container lands on
\* device 0 of node0, the device that pod A shares: with 80 cores and 2
\* memory units left it is the device of least spare capacity that fits.
C23_PodDOnDeviceZero ==
    ScenarioStep(4) =>
        /\ last.res.nodes = <<"node0">>
        /\ IndexKeysIn(last.res.patch) = {GPUIndexKey(0)}
        /\ last.res.patch[GPUIndexKey(0)] = <<"0">>

\* pod D has been patched with device 0 of node0, where the view of node0
\* built from the bound pod A holds 20 cores and 2 memory units on device 0
\* and nothing on device 1
C23_Witness ==
    /\ ScenarioStep(4)
    /\ last.res.patched
    /\ last.res.patch[GPUIndexKey(0)] = <<"0">>
    /\ LET v == NewNodeInfo(nodes["node0"],
                            ListPodsOnNode(nodes["node0"], ListAllPods(last.order))).n
       IN /\ v.devs[0].usedCore = 20 /\ v.devs[0].usedMemory = 2
          /\ v.devs[1].usedCore = 0

----------------------------------------------------------------------------
(* What the annotations of the live pods add up to *)

\* the device indexes that the value of an index annotation names
IndexesOf(value) == {d \in 0..9 : Itoa(d) \in Range(Split(value, ","))}

\* the node whose devices pod p of the view holds: the node it is bound to,
\* or the node of its placement annotation while it is unbound
HeldNode(view, p) ==
    IF view[p].nodeName # "" THEN <<view[p].nodeName>>
    ELSE IF <<PredicateNode>> \in DOMAIN view[p].ann
         THEN view[p].ann[<<PredicateNode>>] ELSE <<"">>

\* the pairs <<pod, container position>> of the live pods of the view whose
\* index annotation names device d of node n
HoldersOf(view, n, d) ==
    {x \in Pods \X (0..1) :
        /\ view[x[1]].phase \notin {PodSucceeded, PodFailed}
        /\ HeldNode(view, x[1]) = <<n>>
        /\ x[2] < Len(podSpec[x[1]].containers)
        /\ GPUIndexKey(x[2]) \in DOMAIN view[x[1]].ann
        /\ d \in IndexesOf(view[x[1]].ann[GPUIndexKey(x[2])])}

\* what a container holds of each device it is placed on
HeldCores(c) ==
    IF c.limits[VCoreAnnotation] < HundredCore THEN c.limits[VCoreAnnotation]
    ELSE HundredCore

HeldMemory(c, deviceTotalMemory) ==
    IF c.limits[VCoreAnnotation] < HundredCore THEN c.limits[VMemoryAnnotation]
    ELSE deviceTotalMemory

\* device d of node n is promised more than it has
OvercommittedOn(view, n, d) ==
    LET H == HoldersOf(view, n, d)
        total == nodes[n].capacity[VMemoryAnnotation]
                     \div (nodes[n].capacity[VCoreAnnotation] \div HundredCore)
        cores == SumOver(H, [x \in H |-> HeldCores(podSpec[x[1]].containers[x[2] + 1])])
        memory == SumOver(H, [x \in H |->
                                 HeldMemory(podSpec[x[1]].containers[x[2] + 1], total)])
    IN cores > HundredCore \/ memory > total

Overcommitted(view) ==
    \E n \in {m \in DOMAIN nodes : IsGPUEnabledNode(nodes[m])} :
       \E d \in 0..(GetGPUDeviceCountOfNode(nodes[n]) - 1) : OvercommittedOn(view, n, d)

\* C24: nothing orders two requests against each other.  A request is
\* accepted on the pod list it reads, so the live pods' annotations can add
\* up to more than a device has, with the debounce sleep in place; they do
\* so only when the pod list of the request did not yet show the patch of
\* another pod.
C24_OvercommitOnlyUnseenPatch ==
    (Answered /\ last.res.patched /\ Overcommitted(pods)) =>
        \E q \in Pods \ {last.pod} : cache[q].ann # pods[q].ann

\* in the build that sleeps before its filters a request is accepted on a
\* pod list that shows no overcommitted device, and with its patch the live
\* pods hold more than a device of the accepted node has
C24_Witness ==
    /\ Answered /\ last.res.patched
    /\ build = "quota"
    /\ "sleep" \in Range(last.res.stages)
    /\ ~Overcommitted(cache)
    /\ \E n \in Accepted :
          \E d \in 0..(GetGPUDeviceCountOfNode(nodes[n]) - 1) : OvercommittedOn(pods, n, d)
    /\ \A q \in Pods : pods[q].phase \in {PodPending, PodRunning}
                       /\ <<PredicateNode>> \in DOMAIN pods[q].ann

----------------------------------------------------------------------------
(* Filter of the quota build statement by statement, next to the         *)
(* refresher goroutine inside syncQuota and setQuota and to the owner of   *)
(* the configmap.  last holds the mutex, the position of the two           *)
(* goroutines, what the request has read and the stages it has done, the   *)
(* accesses to the two fields, the pairs that setQuota has stored and the  *)
(* line the last run of syncQuota has logged.  The                         *)
(* scheduler sends the pod as the API server holds it; the pod informer    *)
(* is at rest.                                                             *)

\* the resource versions the configmap goes through
MaxRevision == 2

\* one access to a field of the store, and whether its goroutine held the mutex
Access(by, field, kind, held) ==
    [by |-> by, field |-> field, kind |-> kind, held |-> held]

\* the refresher between two runs of syncQuota
Idle == [pc |-> "idle", revision |-> <<>>, quota |-> NoQuota]

\* no request in Filter
IdleRequest ==
    [pc |-> "idle", pod |-> "", revision |-> <<>>, quota |-> NoQuota,
     stages |-> <<>>, nodes |-> <<>>, error |-> ""]

InitQuotaStore ==
    /\ build = "quota"
    /\ nodes = NodeTable
    /\ podSpec = PodTable
    /\ pods = [p \in DOMAIN PodTable |->
                  [nodeName |-> "", phase |-> PodPending, ann |-> NoAnnotations]]
    /\ cache = pods
    /\ configMap \in ConfigMaps
    /\ quota = NoQuota
    /\ quotaLastSyncedRevision = <<>>
    /\ patchCount = [p \in DOMAIN PodTable |-> 0]
    /\ nodeInfo = NoNodeInfo
    /\ last = [op |-> "store", mutex |-> "", refresher |-> Idle,
               request |-> IdleRequest, accesses |-> {},
               stored |-> {<<quotaLastSyncedRevision, quota>>}, log |-> ""]

\* what the owner can write: the configmaps of the deployment, one without
\* the key gpu_quota and one whose gpu_quota is not a JSON document
ConfigMapEdits ==
    ConfigMaps
        \cup {[present |-> TRUE, rv |-> 1, data |-> NoData],
              [present |-> TRUE, rv |-> 1,
               data |-> (QuotaConfigKey :> [valid |-> FALSE, quota |-> NoQuota])]}

\* the owner of the configmap writes it anew or deletes it
EditConfigMap(cm) ==
    /\ configMap.rv < MaxRevision
    /\ configMap' = [cm EXCEPT !.rv = configMap.rv + 1]
    /\ UNCHANGED <<nodeInfo, build, nodes, podSpec, pods, cache, quota,
                   quotaLastSyncedRevision, patchCount, last>>

\* a variant of syncQuotaDecides that stores what parseQuota returns with
\* its error
syncQuotaDecidesStoresAnyway ==
    /\ last.refresher.pc = "idle"
    /\ LET r == parseQuota(configMap.data)
           Call(q, rv, seen, line) ==
               last' = [last EXCEPT !.refresher = [pc |-> "Lock", revision |-> rv,
                                                   quota |-> q],
                                    !.accesses = @ \cup seen,
                                    !.log = line]
           compared == {Access("syncQuota", "quotaLastSyncedRevision", "read",
                               last.mutex = "syncQuota")}
       IN IF ~configMap.present THEN Call(NoQuota, <<"none">>, {}, "GPU quota is not set")
          ELSE IF Itoa(configMap.rv) = quotaLastSyncedRevision
          THEN last' = [last EXCEPT !.accesses = @ \cup compared,
                                    !.log = "Same resource version"]
          ELSE Call(r.quota, Itoa(configMap.rv), compared,
                    IF r.ok THEN "" ELSE "Failed to parse quota")
    /\ UNCHANGED <<nodeInfo, build, nodes, podSpec, pods, cache, configMap, quota,
                   quotaLastSyncedRevision, patchCount>>

\* a variant of syncQuotaDecides that marks the store as not synced when
\* the configmap is not found
syncQuotaDecidesUnsyncs ==
    /\ last.refresher.pc = "idle"
    /\ LET r == parseQuota(configMap.data)
           Call(q, rv, seen, line) ==
               last' = [last EXCEPT !.refresher = [pc |-> "Lock", revision |-> rv,
                                                   quota |-> q],
                                    !.accesses = @ \cup seen,
                                    !.log = line]
           Return(seen, line) ==
               last' = [last EXCEPT !.accesses = @ \cup seen, !.log = line]
           compared == {Access("syncQuota", "quotaLastSyncedRevision", "read",
                               last.mutex = "syncQuota")}
       IN IF ~configMap.present THEN Call(NoQuota, <<>>, {}, "GPU quota is not set")
          ELSE IF Itoa(configMap.rv) = quotaLastSyncedRevision
          THEN Return(compared, "Same resource version")
          ELSE IF ~r.ok THEN Return(compared, "Failed to parse quota")
          ELSE Call(r.quota, Itoa(configMap.rv), compared, "")
    /\ UNCHANGED <<nodeInfo, build, nodes, podSpec, pods, cache, configMap, quota,
                   quotaLastSyncedRevision, patchCount>>

\* syncQuota up to its call of setQuota, or to its return without one: the
\* configmap is read, its resource version compared with the field, its
\* data parsed; log is the line the run writes
syncQuotaDecides ==
    /\ last.refresher.pc = "idle"
    /\ LET r == parseQuota(configMap.data)
           Call(q, rv, seen, line) ==
               last' = [last EXCEPT !.refresher = [pc |-> "Lock", revision |-> rv,
                                                   quota |-> q],
                                    !.accesses = @ \cup seen,
                                    !.log = line]
           Return(seen, line) ==
               last' = [last EXCEPT !.accesses = @ \cup seen, !.log = line]
           compared == {Access("syncQuota", "quotaLastSyncedRevision", "read",
                               last.mutex = "syncQuota")}
       IN IF ~configMap.present THEN Call(NoQuota, <<"none">>, {}, "GPU quota is not set")
          ELSE IF Itoa(configMap.rv) = quotaLastSyncedRevision
          THEN Return(compared, "Same resource version")
          ELSE IF ~r.ok THEN Return(compared, "Failed to parse quota")
          ELSE Call(r.quota, Itoa(configMap.rv), compared, "")
    /\ UNCHANGED <<nodeInfo, build, nodes, podSpec, pods, cache, configMap, quota,
                   quotaLastSyncedRevision, patchCount>>

\* setQuota: gpuFilter.Lock()
setQuotaLock ==
    /\ last.refresher.pc = "Lock"
    /\ last.mutex = ""
    /\ last' = [last EXCEPT !.mutex = "syncQuota", !.refresher.pc = "quota"]
    /\ UNCHANGED <<nodeInfo, build, nodes, podSpec, pods, cache, configMap, quota,
                   quotaLastSyncedRevision, patchCount>>

\* setQuota: gpuFilter.quota = quota
setQuotaWritesQuota ==
    /\ last.refresher.pc = "quota"
    /\ quota' = last.refresher.quota
    /\ last' = [last EXCEPT !.refresher.pc = "revision",
                            !.accesses = @ \cup {Access("syncQuota", "quota", "write",
                                                        last.mutex = "syncQuota")}]
    /\ UNCHANGED <<nodeInfo, build, nodes, podSpec, pods, cache, configMap,
                   quotaLastSyncedRevision, patchCount>>

\* setQuota: gpuFilter.quotaLastSyncedRevision = resourceVersion
setQuotaWritesRevision ==
    /\ last.refresher.pc = "revision"
    /\ quotaLastSyncedRevision' = last.refresher.revision
    /\ last' = [last EXCEPT !.refresher.pc = "Unlock",
                            !.accesses = @ \cup {Access("syncQuota", "quotaLastSyncedRevision",
                                                        "write", last.mutex = "syncQuota")}]
    /\ UNCHANGED <<nodeInfo, build, nodes, podSpec, pods, cache, configMap, quota,
                   patchCount>>

\* a variant of setQuotaUnlock that returns with the mutex held
setQuotaKeepsMutex ==
    /\ last.refresher.pc = "Unlock"
    /\ last' = [last EXCEPT !.refresher = Idle,
                            !.stored = @ \cup {<<quotaLastSyncedRevision, quota>>}]
    /\ UNCHANGED <<nodeInfo, build, nodes, podSpec, pods, cache, configMap, quota,
                   quotaLastSyncedRevision, patchCount>>

\* setQuota: the deferred gpuFilter.Unlock()
setQuotaUnlock ==
    /\ last.refresher.pc = "Unlock"
    /\ last' = [last EXCEPT !.mutex = "", !.refresher = Idle,
                            !.stored = @ \cup {<<quotaLastSyncedRevision, quota>>}]
    /\ UNCHANGED <<nodeInfo, build, nodes, podSpec, pods, cache, configMap, quota,
                   quotaLastSyncedRevision, patchCount>>

\* a variant of FilterGate that goes on to the quota filter at once
FilterGateSkipsSleep(p) ==
    /\ last.request.pc = "idle"
    /\ IsGPURequiredPod(RequestPod(p, pods[p].ann))
    /\ last' = [last EXCEPT
                   !.request = [IdleRequest EXCEPT
                       !.pc = IF Len(quotaLastSyncedRevision) = 0
                              THEN "return" ELSE "Lock",
                       !.pod = p,
                       !.revision = quotaLastSyncedRevision,
                       !.nodes = SortNames(DOMAIN nodes),
                       !.error = IF Len(quotaLastSyncedRevision) = 0
                                 THEN NotSyncedError ELSE ""],
                   !.accesses = @ \cup {Access("Filter", "quotaLastSyncedRevision", "read",
                                               last.mutex = "Filter")}]
    /\ UNCHANGED <<nodeInfo, build, nodes, podSpec, pods, cache, configMap, quota,
                   quotaLastSyncedRevision, patchCount>>

\* Filter for GPU pod p and every node up to the sleep:
\* len(gpuFilter.quotaLastSyncedRevision) == 0
FilterGate(p) ==
    /\ last.request.pc = "idle"
    /\ IsGPURequiredPod(RequestPod(p, pods[p].ann))
    /\ last' = [last EXCEPT
                   !.request = [IdleRequest EXCEPT
                       !.pc = IF Len(quotaLastSyncedRevision) = 0
                              THEN "return" ELSE "sleep",
                       !.pod = p,
                       !.revision = quotaLastSyncedRevision,
                       !.nodes = SortNames(DOMAIN nodes),
                       !.error = IF Len(quotaLastSyncedRevision) = 0
                                 THEN NotSyncedError ELSE ""],
                   !.accesses = @ \cup {Access("Filter", "quotaLastSyncedRevision", "read",
                                               last.mutex = "Filter")}]
    /\ UNCHANGED <<nodeInfo, build, nodes, podSpec, pods, cache, configMap, quota,
                   quotaLastSyncedRevision, patchCount>>

\* Filter: time.Sleep(gpuFilter.conf.SkipBindTime)
FilterSleeps ==
    /\ last.request.pc = "sleep"
    /\ last' = [last EXCEPT !.request.pc = "Lock",
                            !.request.stages = Append(@, "sleep")]
    /\ UNCHANGED <<nodeInfo, build, nodes, podSpec, pods, cache, configMap, quota,
                   quotaLastSyncedRevision, patchCount>>

\* quotaFilter, getQuotaForNamespace: gpuFilter.Lock()
getQuotaForNamespaceLock ==
    /\ last.request.pc = "Lock"
    /\ last.mutex = ""
    /\ last' = [last EXCEPT !.mutex = "Filter", !.request.pc = "quota"]
    /\ UNCHANGED <<nodeInfo, build, nodes, podSpec, pods, cache, configMap, quota,
                   quotaLastSyncedRevision, patchCount>>

\* getQuotaForNamespace: quota, exists = gpuFilter.quota[namespace]
getQuotaForNamespaceReads ==
    /\ last.request.pc = "quota"
    /\ last' = [last EXCEPT !.request.pc = "Unlock",
                            !.request.quota = quota,
                            !.accesses = @ \cup {Access("Filter", "quota", "read",
                                                        last.mutex = "Filter")}]
    /\ UNCHANGED <<nodeInfo, build, nodes, podSpec, pods, cache, configMap, quota,
                   quotaLastSyncedRevision, patchCount>>

\* getQuotaForNamespace: the deferred gpuFilter.Unlock()
getQuotaForNamespaceUnlock ==
    /\ last.request.pc = "Unlock"
    /\ last' = [last EXCEPT !.mutex = "", !.request.pc = "quotaFilter"]
    /\ UNCHANGED <<nodeInfo, build, nodes, podSpec, pods, cache, configMap, quota,
                   quotaLastSyncedRevision, patchCount>>

\* quotaFilter from the record that getQuotaForNamespace returned on:
\* filterGPUModel and filterNodes, and the loop of Filter keeps the nodes
\* that passed
quotaFilterFilters ==
    /\ last.request.pc = "quotaFilter"
    /\ LET pod == RequestPod(last.request.pod, pods[last.request.pod].ann)
           held == last.request.quota
           order == SortNames(Pods)
           passed == IF pod.ns \notin DOMAIN held THEN last.request.nodes
                     ELSE filterNodes(last.request.nodes,
                                      filterGPUModel(pod, held[pod.ns],
                                                     ListPodsOfNamespace(order, pod.ns)),
                                      held[pod.ns].Pool).passed
       IN last' = [last EXCEPT !.request.pc = "deviceFilter",
                               !.request.nodes = passed,
                               !.request.stages = Append(@, "quotaFilter")]
    /\ UNCHANGED <<nodeInfo, build, nodes, podSpec, pods, cache, configMap, quota,
                   quotaLastSyncedRevision, patchCount>>

\* deviceFilter on the nodes that the quota filter passed; the API server
\* accepts the patch
FilterDeviceFilter ==
    /\ last.request.pc = "deviceFilter"
    /\ \E d \in {deviceFilter(RequestPod(last.request.pod, pods[last.request.pod].ann),
                              last.request.nodes, ListAllPods(SortNames(Pods)),
                              [i \in 1..Len(last.request.nodes) |-> <<"nil">>],
                              0, FALSE)} :
          /\ pods' = IF d.success
                     THEN [pods EXCEPT ![last.request.pod].ann = MergePatch(@, d.patch)]
                     ELSE pods
          /\ patchCount' = IF d.success
                           THEN [patchCount EXCEPT ![last.request.pod] = @ + 1]
                           ELSE patchCount
          /\ last' = [last EXCEPT !.request.pc = "return",
                                  !.request.nodes = d.filtered,
                                  !.request.stages = Append(@, "deviceFilter")]
    /\ UNCHANGED <<nodeInfo, build, nodes, podSpec, cache, configMap, quota,
                   quotaLastSyncedRevision>>

\* Filter returns; the next request can come
FilterReturns ==
    /\ last.request.pc = "return"
    /\ last' = [last EXCEPT !.request = IdleRequest]
    /\ UNCHANGED <<nodeInfo, build, nodes, podSpec, pods, cache, configMap, quota,
                   quotaLastSyncedRevision, patchCount>>

NextQuotaStore ==
    \/ \E cm \in ConfigMapEdits : EditConfigMap(cm)
    \/ syncQuotaDecides
    \/ setQuotaLock
    \/ setQuotaWritesQuota
    \/ setQuotaWritesRevision
    \/ setQuotaUnlock
    \/ \E p \in Pods : FilterGate(p)
    \/ FilterSleeps
    \/ getQuotaForNamespaceLock
    \/ getQuotaForNamespaceReads
    \/ getQuotaForNamespaceUnlock
    \/ quotaFilterFilters
    \/ FilterDeviceFilter
    \/ FilterReturns

SpecQuotaStore == InitQuotaStore /\ [][NextQuotaStore]_vars

\* C25 as stated: every read and every write of the quota map and of the
\* last-synced revision, by a request or by the refresher, is made while
\* the goroutine holds the mutex of the store, and the revision and the
\* quota map that a request has read are a pair that setQuota stored.
C25_StoreAccessUnderMutex ==
    /\ \A a \in last.accesses : a.held
    /\ last.request.pc \in {"Unlock", "quotaFilter", "deviceFilter", "return"}
          /\ Len(last.request.revision) # 0 =>
              <<last.request.revision, last.request.quota>> \in last.stored

\* a request returns having read the revision of one call of setQuota and
\* the quota map of the next
C25_RequestReadMixedPair ==
    /\ last.request.pc = "return"
    /\ Len(last.request.nodes) = 1
    /\ Len(last.request.revision) # 0
    /\ <<last.request.revision, last.request.quota>> \notin last.stored

\* the stages of Filter in the order of their statements
StageOrder == <<"sleep", "quotaFilter", "deviceFilter">>

\* C26 as stated: a request for a GPU pod that reaches the device filter has
\* run the quota filter, then the debounce sleep, then the device filter.
C26_QuotaSleepDevice ==
    last.request.pc = "return" /\ last.request.error = "" =>
        last.request.stages = <<"quotaFilter", "sleep", "deviceFilter">>

\* C26: a request for a GPU pod that passes the not-synced gate sleeps the
\* debounce delay, then runs the quota filter, then the device filter: at
\* every moment the stages done are the first ones of that order, a request
\* that returns a decision has done all three, and the device filter is the
\* last of them.
C26_SleepQuotaDevice ==
    /\ Len(last.request.stages) <= Len(StageOrder)
    /\ last.request.stages = SubSeq(StageOrder, 1, Len(last.request.stages))
    /\ last.request.pc = "return" /\ last.request.error = "" =>
          last.request.stages = StageOrder
    /\ last.request.pc = "deviceFilter" => last.request.stages = <<"sleep", "quotaFilter">>

\* a request returns with the node it patched the pod for, having slept,
\* then consulted a quota record of its namespace, then allocated
C26_Witness ==
    /\ last.request.pc = "return"
    /\ last.request.stages = StageOrder
    /\ Len(last.request.nodes) = 1
    /\ "nsA" \in DOMAIN last.request.quota
    /\ <<PredicateNode>> \in DOMAIN pods[last.request.pod].ann

----------------------------------------------------------------------------
\* the cores and the memory that the replay of last asks of its device
ReplayedCores == HeldCores(last.container)

ReplayedMemory == HeldMemory(last.container, DeviceTotalMemory(last.before))

\* the replay of last called AddUsedResources on a device of the view
ReplayReserved == last.op = "Replay" /\ last.index \in DOMAIN last.before.devs

\* the device of that call would pass one of its ceilings
ReplayOverCeiling ==
    \/ last.before.devs[last.index].usedCore + ReplayedCores > HundredCore
    \/ last.before.devs[last.index].usedMemory + ReplayedMemory
           > last.before.devs[last.index].totalMemory

\* C27: a reservation of c cores and m memory units on a device is refused
\* exactly when usedCore + c exceeds 100 or usedMemory + m exceeds the
\* device's total memory; a refused reservation leaves the device and the
\* aggregates of the node as they were; an accepted one adds c and m to the
\* device and to the aggregates and changes no other device.
C27_ReserveAllOrNothing ==
    ReplayReserved =>
        /\ NodeInfo_AddUsedResources(last.before, last.index,
                                     ReplayedCores, ReplayedMemory).ok = ~ReplayOverCeiling
        /\ ReplayOverCeiling => nodeInfo = last.before
        /\ ~ReplayOverCeiling =>
              /\ nodeInfo.devs[last.index].usedCore
                     = last.before.devs[last.index].usedCore + ReplayedCores
              /\ nodeInfo.devs[last.index].usedMemory
                     = last.before.devs[last.index].usedMemory + ReplayedMemory
              /\ \A e \in DOMAIN nodeInfo.devs \ {last.index} :
                     nodeInfo.devs[e] = last.before.devs[e]
              /\ nodeInfo.usedCore = last.before.usedCore + ReplayedCores
              /\ nodeInfo.usedMemory = last.before.usedMemory + ReplayedMemory

\* a reservation of 30 cores and 3 memory units is refused on device 0,
\* which has the cores but holds 3 of its 4 memory units, of a node whose
\* device 1 holds reservations too
C27_Witness ==
    /\ ReplayReserved
    /\ last.index = 0
    /\ ReplayedCores = 30 /\ ReplayedMemory = 3
    /\ last.before.devs[0].usedCore = 50 /\ last.before.devs[0].usedMemory = 3
    /\ nodeInfo.deviceCount = 2
    /\ nodeInfo.devs[1].usedCore > 0
    /\ nodeInfo = last.before

\* a reservation is accepted on device 1 while device 0 holds another
C27_Accepted ==
    /\ ReplayReserved
    /\ last.index = 1
    /\ ~ReplayOverCeiling
    /\ ReplayedCores > 0 /\ ReplayedMemory > 0
    /\ last.before.devs[0].usedCore > 0
    /\ last.before.devs[1].usedCore > 0

----------------------------------------------------------------------------
\* the 0-based positions of the containers that the patch of last places
PlacedPositions ==
    {i \in 0..(Len(ThePod.containers) - 1) : GPUIndexKey(i) \in DOMAIN last.res.patch}

\* the positions that the patch places on device d
PlacedOn(d) ==
    {i \in PlacedPositions : d \in IndexesOf(last.res.patch[GPUIndexKey(i)])}

\* the ids of a device list
IDsOf(devs) == {devs[k].id : k \in 1..Len(devs)}

\* on view v the patch of last promises no device more than it has left,
\* a container of 100 cores or more has its devices to itself, and the
\* second of two GPU containers has the devices that AllocateOne picks on
\* the view charged with the first
OneViewFor(v) ==
    /\ \A d \in DOMAIN v.devs :
          /\ v.devs[d].usedCore
                 + SumOver(PlacedOn(d), [i \in PlacedOn(d) |->
                                            HeldCores(ThePod.containers[i + 1])])
                 <= HundredCore
          /\ v.devs[d].usedMemory
                 + SumOver(PlacedOn(d), [i \in PlacedOn(d) |->
                             HeldMemory(ThePod.containers[i + 1], DeviceTotalMemory(v))])
                 <= v.devs[d].totalMemory
    /\ \A i \in PlacedPositions :
          ThePod.containers[i + 1].limits[VCoreAnnotation] >= HundredCore =>
              \A d \in IndexesOf(last.res.patch[GPUIndexKey(i)]) :
                  v.devs[d].usedCore = 0 /\ PlacedOn(d) = {i}
    /\ PlacedPositions = {0, 1} =>
          IndexesOf(last.res.patch[GPUIndexKey(1)])
              = IDsOf(AllocateOne(AllocateOne(v, ThePod.containers[1]).n,
                                  ThePod.containers[2]).devs)

\* C28: within one Allocate call the device of container k is chosen on the
\* NodeView charged with containers 0..k-1: the placements of an accepted
\* pod fit together on the view of the accepted node, two containers are
\* never both given capacity that holds one of them only, and a container
\* of 100 cores or more never gets a device that an earlier container of
\* the pod uses.
C28_ContainersShareOneView ==
    (Answered /\ last.res.patched) => \A n \in Accepted : OneViewFor(ViewOf(n))

\* a pod of a whole device and a half of one is accepted on node0: the
\* first container has device 0, which the second would have been given on
\* the view as the request found it, and the second has device 1
C28_Witness ==
    /\ Answered /\ last.res.patched
    /\ Accepted = {"node0"}
    /\ Len(ThePod.containers) = 2
    /\ ThePod.containers[1].limits[VCoreAnnotation] = HundredCore
    /\ ThePod.containers[2].limits[VCoreAnnotation] = 50
    /\ {GPUIndexKey(0), GPUIndexKey(1)} \subseteq DOMAIN last.res.patch
    /\ last.res.patch[GPUIndexKey(0)] = <<"0">>
    /\ last.res.patch[GPUIndexKey(1)] = <<"1">>
    /\ IDsOf(AllocateOne(ViewOf("node0"), ThePod.containers[2]).devs) = {0}

----------------------------------------------------------------------------
\* the value that Allocate writes under the index key of the container
\* that AllocateOne has placed
WrittenIndexes == Join([k \in 1..Len(last.devs) |-> Itoa(last.devs[k].id)], ",")

\* the numbers that the parts of an index value denote
ParsedIndexes(value) ==
    [k \in 1..Len(Split(value, ",")) |-> Atoi(Split(value, ",")[k]).val]

StrictlyAscending(ids) == \A k, l \in 1..Len(ids) : k < l => ids[k] < ids[l]

\* C29: the device indexes of every predicate-gpu-idx value that the
\* allocator writes are distinct and ascend by device id.
C29_IndexesAscend ==
    (last.op = "AllocateOne" /\ last.ok) =>
        /\ Len(ParsedIndexes(WrittenIndexes)) = Len(last.devs)
        /\ \A k \in 1..Len(last.devs) :
              Atoi(Split(WrittenIndexes, ",")[k]).ok
        /\ StrictlyAscending(ParsedIndexes(WrittenIndexes))

\* a container of 200 cores is placed on the two devices of node0 and the
\* value written for it is "0,1"
C29_Witness ==
    /\ last.op = "AllocateOne" /\ last.ok
    /\ last.container.limits[VCoreAnnotation] = 2 * HundredCore
    /\ WrittenIndexes = <<"0", ",", "1">>
    /\ ParsedIndexes(WrittenIndexes) = <<0, 1>>

\* a container of 200 cores finds two devices without a core in use, device
\* 1 with less memory to spare than device 0: the sort puts device 1 first,
\* the charge of a whole device's memory fails on it, and nothing is placed
C29_RefusedOutOfOrder ==
    /\ last.op = "AllocateOne" /\ ~last.ok
    /\ last.container.limits[VCoreAnnotation] = 2 * HundredCore
    /\ last.before.deviceCount = 2
    /\ last.before.devs[0].usedCore = 0 /\ last.before.devs[1].usedCore = 0
    /\ last.before.devs[0].usedMemory = 0 /\ last.before.devs[1].usedMemory > 0
    /\ SortDevices(last.before)[1].id = 1

----------------------------------------------------------------------------
\* the view of node n that NewNodeInfo builds from the pod list in order
CachedView(n, order) ==
    NewNodeInfo(nodes[n], ListPodsOnNode(nodes[n], ListAllPods(order))).n

\* device d of view v holds what the containers of the cached pods on node
\* n whose index annotation names d add up to: their cores and memory below
\* 100 cores, 100 cores and the memory of a device from 100 cores on
HoldsTheSum(v, n, d) ==
    LET H == HoldersOf(cache, n, d)
    IN /\ v.devs[d].usedCore
              = SumOver(H, [x \in H |-> HeldCores(podSpec[x[1]].containers[x[2] + 1])])
       /\ v.devs[d].usedMemory
              = SumOver(H, [x \in H |->
                     HeldMemory(podSpec[x[1]].containers[x[2] + 1], DeviceTotalMemory(v))])

\* C30: when no reservation of the replay is refused, every device of the
\* NodeView of a node holds the sum, over the pods considered on the node,
\* their containers i with a predicate-gpu-idx-<i> annotation and the
\* indexes d of it, of the container's cores and memory, or of 100 cores
\* and a device's memory for a container of 100 cores or more; a container
\* without the annotation adds nothing.
C30_ViewIsSumOfAnnotations ==
    \A n \in {m \in DOMAIN nodes : IsGPUEnabledNode(nodes[m])} :
       (\A d \in 0..(GetGPUDeviceCountOfNode(nodes[n]) - 1) : ~OvercommittedOn(cache, n, d))
           => \A order \in ListOrders :
                 \A d \in 0..(GetGPUDeviceCountOfNode(nodes[n]) - 1) :
                     HoldsTheSum(CachedView(n, order), n, d)

\* the lister shows pod C, of one container of 200 cores and one without
\* GPU, bound to node2 and pod A and pod D on node0: both devices of
\* node2 hold 100 cores and 4 memory units, and device 0 of node0 holds the
\* three containers of A and D, 30 cores and 4 memory units
C30_Witness ==
    /\ last.op = "none"
    /\ cache["pod2"].nodeName = "node2"
    /\ cache["pod0"].nodeName = "node0"
    /\ cache["pod3"].nodeName = "node0"
    /\ IndexKeysIn(cache["pod2"].ann) = {GPUIndexKey(0)}
    /\ LET v == CachedView("node2", SortNames(Pods))
           w == CachedView("node0", SortNames(Pods))
       IN /\ v.devs[0].usedCore = HundredCore /\ v.devs[0].usedMemory = 4
          /\ v.devs[1].usedCore = HundredCore /\ v.devs[1].usedMemory = 4
          /\ w.devs[0].usedCore = 30 /\ w.devs[0].usedMemory = 4
          /\ Cardinality(HoldersOf(cache, "node0", 0)) = 3

----------------------------------------------------------------------------
\* a pod of one container c whose index annotation lists indexes
AnnotatedPod(c, indexes) ==
    [containers |-> <<c>>,
     ann |-> (GPUIndexKey(0) :> Join([k \in 1..Len(indexes) |-> Itoa(indexes[k])], ","))]

\* the view b after the replay of: a pod of container c with an index
\* out of range and then index i, and after it a pod of container c2 on
\* index j
ReplayedAfter(b, c, i, c2, j) ==
    ReplayPods([panic |-> FALSE, n |-> b],
               <<AnnotatedPod(c, <<b.deviceCount, i>>), AnnotatedPod(c2, <<j>>)>>,
               b.deviceCount, DeviceTotalMemory(b))

\* the view after one reservation more, taken alone
OneMore(v, c2, j) ==
    ReplayIndex([panic |-> FALSE, n |-> v], j, c2, v.deviceCount, DeviceTotalMemory(v))

\* C31: during replay an invalid entry is skipped on its own and the view
\* goes on: an index at or above the device count touches no counter, a
\* reservation that would pass a ceiling of its device leaves the device as
\* it was, and the reservations after it, of the same pod and of other
\* pods, are applied as they would be without it.
C31_InvalidEntrySkippedAlone ==
    last.op = "Replay" =>
        /\ last.index >= last.before.deviceCount => nodeInfo = last.before
        /\ (ReplayReserved /\ ReplayOverCeiling) => nodeInfo = last.before
        /\ \A c2 \in Requests, j \in 0..(nodeInfo.deviceCount - 1) :
              ReplayedAfter(last.before, last.container, last.index, c2, j)
                  = OneMore(nodeInfo, c2, j)

\* the reservation of 50 cores on device 0 is dropped, for the device holds
\* 100, and a reservation of 30 cores and 1 memory unit of the next pod is
\* applied to device 1 all the same
C31_Witness ==
    /\ ReplayReserved
    /\ last.index = 0
    /\ ReplayedCores = 50
    /\ last.before.devs[0].usedCore = HundredCore
    /\ nodeInfo = last.before
    /\ nodeInfo.deviceCount = 2
    /\ LET r == ReplayedAfter(last.before, last.container, 0, Container(30, 1), 1)
       IN /\ ~r.panic
          /\ r.n.devs[1].usedCore = nodeInfo.devs[1].usedCore + 30
          /\ r.n.devs[0] = nodeInfo.devs[0]

----------------------------------------------------------------------------
\* the GPU nodes of the cluster
GPUNodes == {m \in DOMAIN nodes : IsGPUEnabledNode(nodes[m])}

\* the devices of the views of node n are the same in whatever order the
\* lister returns the cached pods
SameViewInEveryOrder(n) ==
    \A o1, o2 \in Orders(Pods) :
        /\ CachedView(n, o1).devs = CachedView(n, o2).devs
        /\ CachedView(n, o1).usedCore = CachedView(n, o2).usedCore
        /\ CachedView(n, o1).usedMemory = CachedView(n, o2).usedMemory

\* C32 as stated: for the same node and the same pods, NodeView construction
\* yields the same used cores and used memory on every device for every
\* order in which the pods are processed.
C32_OrderIndependent == \A n \in GPUNodes : SameViewInEveryOrder(n)

\* C32: when the reservations of the pods on a node fit its devices, so that
\* the replay drops none of them, NodeView construction yields the same used
\* cores and used memory on every device, and the same aggregates, for
\* every order in which the pods are processed.
C32_OrderIndependentWhenFitting ==
    \A n \in GPUNodes :
        (\A d \in 0..(GetGPUDeviceCountOfNode(nodes[n]) - 1) : ~OvercommittedOn(cache, n, d))
            => SameViewInEveryOrder(n)

\* the lister shows both pods on node0, the two halves of pod1 on one device
\* and pod0 on the other, and either order gives that view
C32_Witness ==
    /\ HeldNode(cache, "pod0") = <<"node0">>
    /\ HeldNode(cache, "pod1") = <<"node0">>
    /\ cache["pod0"].phase \in {PodPending, PodRunning}
    /\ cache["pod1"].phase \in {PodPending, PodRunning}
    /\ \A d \in 0..1 : ~OvercommittedOn(cache, "node0", d)
    /\ \A o \in Orders(Pods) :
          /\ CachedView("node0", o).usedCore = 2 * HundredCore
          /\ CachedView("node0", o).usedMemory = 7

\* the lister shows both pods on the one device of node1: the pod that comes
\* first keeps its reservation, and the memory in use is 4 units in one
\* order and 3 in the other
C32_OrderShows ==
    /\ CachedView("node1", <<"pod0", "pod1">>).devs[0].usedMemory = 4
    /\ CachedView("node1", <<"pod1", "pod0">>).devs[0].usedMemory = 3

----------------------------------------------------------------------------
(* C33 *)

\* the pods counted on node n, out of the cached pods
CountedOn(n) ==
    LET counted == ListPodsOnNode(nodes[n], ListAllPods(SortNames(Pods)))
    IN {counted[i].name : i \in 1..Len(counted)}

\* the rule of the specification, read off the cached object of pod p
PlacedByRule(n, p) ==
    /\ \/ cache[p].nodeName = n
       \/ /\ cache[p].nodeName = ""
          /\ <<PredicateNode>> \in DOMAIN cache[p].ann
          /\ cache[p].ann[<<PredicateNode>>] = <<n>>
    /\ cache[p].phase \notin {PodSucceeded, PodFailed}

\* the view of node n built from the cached pods other than p
ViewWithout(n, p) ==
    LET Other(pod) == pod.name # p
    IN NewNodeInfo(nodes[n],
                   ListPodsOnNode(nodes[n],
                                  SelectSeq(ListAllPods(SortNames(Pods)), Other))).n

\* C33: a pod is counted on a node exactly when it is bound to the node, or
\* unbound and annotated with the node as its predicate node, and its phase
\* is neither Succeeded nor Failed; so a pod is counted on at most one node,
\* a bound pod only on its own node, and a pod that has ended adds nothing
\* to the view of any node
C33_CountedByRule ==
    \A p \in Pods :
        /\ \A n \in DOMAIN nodes : p \in CountedOn(n) <=> PlacedByRule(n, p)
        /\ Cardinality({n \in DOMAIN nodes : p \in CountedOn(n)}) <= 1
        /\ cache[p].nodeName # ""
              => {n \in DOMAIN nodes : p \in CountedOn(n)} \subseteq {cache[p].nodeName}
        /\ cache[p].phase \in {PodSucceeded, PodFailed}
              => \A n \in GPUNodes : CachedView(n, SortNames(Pods)) = ViewWithout(n, p)

\* pod0 ran on node0 and failed, pod1 is accepted on node0 and not bound
\* yet: the view of node0 holds the reservations of pod1 alone
C33_Witness ==
    /\ cache["pod0"].nodeName = "node0"
    /\ cache["pod0"].phase = PodFailed
    /\ cache["pod1"].nodeName = ""
    /\ CountedOn("node0") = {"pod1"}
    /\ CachedView("node0", SortNames(Pods)).usedCore = 100

----------------------------------------------------------------------------
(* C34 *)

\* the candidate GPU nodes that the walk reaches before it accepts a node:
\* those before the accepted node in ascending order, all when none is accepted
TriedInVain ==
    {n \in DeviceCandidates :
        /\ IsGPUEnabledNode(nodes[n])
        /\ \A a \in Accepted : KeyLess(n, a)}

\* the candidate GPU nodes after the accepted node
LeftUntried ==
    {n \in DeviceCandidates :
        /\ IsGPUEnabledNode(nodes[n])
        /\ \E a \in Accepted : KeyLess(a, n)}

FailedWith(n, reason) ==
    n \in DOMAIN last.res.failed /\ last.res.failed[n] = reason

DeviceFilterWalked ==
    ReachedDeviceFilter /\ ~AlreadyPredicated(ThePod) /\ ~last.res.panic

\* C34 as the specification states it: the candidates of the device filter
\* other than the accepted node are failed, the nodes without GPU capacity
\* with "no GPU device", the nodes tried before the accepted node (all
\* tried nodes when none is accepted) with "does not match", the nodes
\* after it with "matched to another node"; the accepted node is not failed
C34_ThreeReasons ==
    DeviceFilterWalked =>
        /\ \A n \in DeviceCandidates :
              /\ ~IsGPUEnabledNode(nodes[n]) => FailedWith(n, "no GPU device")
              /\ n \in TriedInVain => FailedWith(n, "does not match")
              /\ n \in LeftUntried => FailedWith(n, "matched to another node")
        /\ Accepted \cap DOMAIN last.res.failed = {}
        /\ DeviceCandidates \ Accepted \subseteq DOMAIN last.res.failed

\* C34: the same partition with the fourth reason of the code: a node tried
\* before the accepted one (any tried node when none is accepted) is failed
\* with "does not match" when the pod does not fit it and with "update pod
\* annotation failed" when the pod fits it and the patch for it failed
C34_FourReasons ==
    DeviceFilterWalked =>
        /\ \A n \in DeviceCandidates :
              /\ ~IsGPUEnabledNode(nodes[n]) => FailedWith(n, "no GPU device")
              /\ (n \in TriedInVain /\ n \notin Fitting) => FailedWith(n, "does not match")
              /\ (n \in TriedInVain /\ n \in Fitting)
                    => FailedWith(n, "update pod annotation failed")
              /\ n \in LeftUntried => FailedWith(n, "matched to another node")
        /\ Accepted \cap DOMAIN last.res.failed = {}
        /\ DeviceCandidates \ Accepted \subseteq DOMAIN last.res.failed

\* three candidates: node2 has no GPU, the pod fits node1 and the patch for
\* it fails, node0 is accepted
C34_Witness ==
    /\ DeviceFilterWalked
    /\ DeviceCandidates = {"node0", "node1", "node2"}
    /\ Accepted = {"node0"}
    /\ FailedWith("node2", "no GPU device")
    /\ FailedWith("node1", "update pod annotation failed")

\* node1 is accepted and node0, after it in the order, is left untried
C34_LaterNodeUntried ==
    /\ DeviceFilterWalked
    /\ Accepted = {"node1"}
    /\ FailedWith("node0", "matched to another node")

----------------------------------------------------------------------------
(* C35 *)

\* a run of syncQuota reaches its call of setQuota
CallsSetQuota == last.refresher.pc = "idle" /\ last'.refresher.pc = "Lock"

\* a run of syncQuota returns without a call of setQuota
ReturnsAtOnce ==
    /\ last.refresher.pc = "idle" /\ last'.refresher.pc = "idle"
    /\ last'.log # last.log

StoreChanges ==
    quota' # quota \/ quotaLastSyncedRevision' # quotaLastSyncedRevision

Parses == parseQuota(configMap.data).ok

\* C35: a run of the refresher calls setQuota only when the configmap is
\* not found, with no record and the revision "none", or when its resource
\* version differs from the last synced one and gpu_quota parses, with the
\* parsed records and that resource version; the two fields change in
\* setQuota only, to what the run decided; a run that finds the resource
\* version unchanged, the key missing or a value that does not parse
\* returns with both fields as they were
C35_RefreshFrame ==
    [][/\ CallsSetQuota =>
             \/ /\ ~configMap.present
                /\ last'.refresher.quota = NoQuota
                /\ last'.refresher.revision = <<"none">>
             \/ /\ configMap.present
                /\ Itoa(configMap.rv) # quotaLastSyncedRevision
                /\ Parses
                /\ last'.refresher.quota = configMap.data[QuotaConfigKey].quota
                /\ last'.refresher.revision = Itoa(configMap.rv)
       /\ ReturnsAtOnce =>
             /\ configMap.present
             /\ Itoa(configMap.rv) = quotaLastSyncedRevision \/ ~Parses
             /\ ~StoreChanges
       /\ (configMap.present /\ last.refresher.pc = "idle"
             /\ (Itoa(configMap.rv) = quotaLastSyncedRevision \/ ~Parses))
             => ~CallsSetQuota
       /\ StoreChanges =>
             /\ last.refresher.pc \in {"quota", "revision"}
             /\ quota' \in {quota, last.refresher.quota}
             /\ quotaLastSyncedRevision'
                   \in {quotaLastSyncedRevision, last.refresher.revision}
      ]_vars

\* the store holds the records of resource version 1; the configmap was
\* written again with a value that does not parse, and the run of the
\* refresher that met it has left the store as it was
C35_Witness ==
    /\ configMap.present /\ configMap.rv = 2
    /\ QuotaConfigKey \in DOMAIN configMap.data /\ ~Parses
    /\ last.log = "Failed to parse quota"
    /\ last.refresher.pc = "idle"
    /\ quotaLastSyncedRevision = Itoa(1)
    /\ quota # NoQuota

\* the same with a configmap that has lost the key gpu_quota
C35_KeyMissing ==
    /\ configMap.present /\ configMap.rv = 2
    /\ QuotaConfigKey \notin DOMAIN configMap.data
    /\ last.log = "Failed to parse quota"
    /\ quotaLastSyncedRevision = Itoa(1)
    /\ quota # NoQuota

\* the configmap is deleted and the store is cleared and marked synced
C35_Cleared ==
    /\ ~configMap.present
    /\ last.log = "GPU quota is not set"
    /\ last.refresher.pc = "idle"
    /\ \E pair \in last.stored : pair[1] = Itoa(1) /\ pair[2] # NoQuota
    /\ quota = NoQuota /\ quotaLastSyncedRevision = <<"none">>

----------------------------------------------------------------------------
(* C36 *)

\* go wait.Forever(syncQuota, DefaultQuotaSyncInterval): the refresher runs
\* again and again and every statement of a run is reached; sync.Mutex
\* hands the lock to a goroutine that waits for it; a request that holds
\* the mutex goes on to its Unlock, and Filter returns
SpecQuotaStoreFair ==
    /\ SpecQuotaStore
    /\ WF_vars(syncQuotaDecides)
    /\ SF_vars(setQuotaLock)
    /\ WF_vars(setQuotaWritesQuota)
    /\ WF_vars(setQuotaWritesRevision)
    /\ WF_vars(setQuotaUnlock)
    /\ WF_vars(getQuotaForNamespaceReads)
    /\ WF_vars(getQuotaForNamespaceUnlock)
    /\ WF_vars(FilterReturns)

\* the configmaps that parse, at the resource versions they can have
ReadableConfigMaps ==
    {[cm EXCEPT !.rv = rv] : cm \in {c \in ConfigMaps : c.present}, rv \in 1..MaxRevision}

\* C36: when the configmap stays as it is from some point on, present and
\* with a gpu_quota that parses, the store holds its records with its
\* resource version from some point on, and from some point on no request
\* for a GPU pod is refused as not synced
C36_EventuallySynced ==
    \A cm \in ReadableConfigMaps :
        <>[](configMap = cm) =>
            /\ <>[](/\ quota = cm.data[QuotaConfigKey].quota
                    /\ quotaLastSyncedRevision = Itoa(cm.rv))
            /\ <>[](last.request.error # NotSyncedError)

\* the configmap was rewritten at resource version 2 and the store holds
\* the records of that version; a request has passed the gate
C36_Witness ==
    /\ configMap.present /\ configMap.rv = 2 /\ Parses
    /\ quota = configMap.data[QuotaConfigKey].quota
    /\ quotaLastSyncedRevision = Itoa(2)
    /\ last.refresher.pc = "idle"
    /\ \E pair \in last.stored : pair[1] = Itoa(1)
    /\ last.request.pc = "sleep"

----------------------------------------------------------------------------
(* C37 *)

Synced == Len(quotaLastSyncedRevision) # 0

\* C37: once the store is synced it stays synced, whatever the refresher
\* meets afterwards (a configmap rewritten, deleted, written again or
\* without a value that parses), and no request for a GPU pod that comes
\* to the gate from then on is refused as not synced
C37_SyncedForGood ==
    [][Synced =>
          /\ Synced'
          /\ (last.request.pc = "idle" /\ last'.request.pc # "idle")
                => last'.request.error # NotSyncedError
      ]_vars

\* the store was synced at resource version 1, the configmap was deleted
\* and the refresher has cleared the store; a request passes the gate on
\* the revision "none"
C37_Witness ==
    /\ ~configMap.present
    /\ \E pair \in last.stored : pair[1] = Itoa(1)
    /\ quotaLastSyncedRevision = <<"none">>
    /\ last.request.pc = "sleep"
    /\ last.request.revision = <<"none">>
    /\ last.request.error = ""

----------------------------------------------------------------------------
(* C39 *)

\* the pods the request listed on node n, and what Allocate made of the view
\* of n
ListedOn(n) == ListPodsOnNode(nodes[n], ListAllPods(last.order))

AllocatedOn(n) == Allocate(ViewOf(n), ThePod, 0)

\* the view of n built again from the same pods and the pod of the request
\* with the annotations Allocate gave it
RebuiltWith(n, a) ==
    NewNodeInfo(nodes[n], Append(ListedOn(n), [ThePod EXCEPT !.ann = a.ann])).n

SameCounters(v, w) ==
    /\ v.usedCore = w.usedCore
    /\ v.usedMemory = w.usedMemory
    /\ DOMAIN v.devs = DOMAIN w.devs
    /\ \A d \in DOMAIN v.devs :
          /\ v.devs[d].usedCore = w.devs[d].usedCore
          /\ v.devs[d].usedMemory = w.devs[d].usedMemory

Replayable(n) ==
    \A d \in 0..(GetGPUDeviceCountOfNode(nodes[n]) - 1) : ~OvercommittedOn(cache, n, d)

\* C39: when Allocate succeeds on a node whose view was replayed without a
\* dropped reservation, the view built from the same pods and the pod with
\* the annotations Allocate wrote has, on every device and for the node,
\* the used cores and memory of the view Allocate ended with
C39_AllocateReplayRoundTrip ==
    DeviceFilterWalked =>
        \A n \in DeviceCandidates :
            (IsGPUEnabledNode(nodes[n]) /\ Replayable(n) /\ AllocatedOn(n).ok)
                => SameCounters(RebuiltWith(n, AllocatedOn(n)), AllocatedOn(n).n)

\* pod1 is accepted on node0 next to pod0: its two halves go to device 1,
\* and the view built from pod0 and the annotated pod1 holds 200 cores
C39_Witness ==
    /\ DeviceFilterWalked
    /\ last.pod = "pod1"
    /\ Accepted = {"node0"}
    /\ Replayable("node0")
    /\ Len(ListedOn("node0")) = 1
    /\ AllocatedOn("node0").n.usedCore = 200
    /\ RebuiltWith("node0", AllocatedOn("node0")).devs[1].usedMemory = 3

----------------------------------------------------------------------------
(* C38 *)

\* a request enters Filter in this step
RequestRuns == last.op = "none" /\ last'.op = "Filter"

\* the replay of the request refuses no reservation: every device of every
\* view holds the sum of what the listed pods reserve on it
NothingDropped(order) ==
    \A n \in GPUNodes :
        \A d \in 0..(GetGPUDeviceCountOfNode(nodes[n]) - 1) :
            HoldsTheSum(CachedView(n, order), n, d)

\* C38: when every request runs on a pod list that shows the pods as the
\* API server holds them, the reservations in the annotations of the live
\* pods never add up to more than 100 cores or the memory of a device on
\* any device, through admissions, binds and terminations, and the replay
\* of a request refuses no reservation
C38_SerializedNeverOvercommits ==
    [][(~Overcommitted(pods) /\ (RequestRuns => cache = pods))
          => /\ ~Overcommitted(pods')
             /\ RequestRuns => NothingDropped(last'.order)
      ]_vars

\* pod0 holds the device of node1 and both pods are listed as they are; a
\* request for pod1 is answered with node0: device 0 of node0 holds its two
\* halves and no device holds more than it has
C38_Witness ==
    /\ Answered /\ last.res.patched
    /\ last.pod = "pod1"
    /\ \A q \in Pods \ {"pod1"} : cache[q] = pods[q]
    /\ HeldNode(pods, "pod0") = <<"node1">>
    /\ HoldersOf(pods, "node0", 0) = {<<"pod1", 0>>, <<"pod1", 1>>}
    /\ ~Overcommitted(pods)

----------------------------------------------------------------------------
(* The device filter on what it does not write itself: a node whose       *)
(* vcuda-core capacity is below one device, and index annotations that a  *)
(* client of the API server has put on a pod: an index below 0 and one    *)
(* past the devices of node0.                                             *)

\* node1 advertises half a device: 50 vcuda-core
FractionNodeTable ==
    [NodeTable EXCEPT !["node1"] = Node("node1", 50, 4, "P100", "wx")]

InitAnnotated ==
    /\ build = "plain"
    /\ nodes \in {NodeTable, FractionNodeTable}
    /\ podSpec = PodTable
    /\ pods = [p \in DOMAIN PodTable |->
                  [nodeName |-> "", phase |-> PodPending, ann |-> NoAnnotations]]
    /\ cache = pods
    /\ configMap = NoConfigMap
    /\ quota = NoQuota
    /\ quotaLastSyncedRevision = <<>>
    /\ patchCount = [p \in DOMAIN PodTable |-> 0]
    /\ last = NoRequest
    /\ nodeInfo = NoNodeInfo

\* a client writes the predicate node and the device index of the first
\* container of pod p, as text
WriteAnnotations(p, name, index) ==
    /\ last.op = "none"
    /\ pods[p].ann = NoAnnotations
    /\ pods' = [pods EXCEPT ![p].ann =
                    (<<PredicateNode>> :> <<name>>)
                        @@ (GPUIndexKey(0) :> IF index < 0 THEN <<"-">> \o Itoa(0 - index)
                                              ELSE Itoa(index))]
    /\ UNCHANGED <<nodeInfo, build, nodes, podSpec, cache, configMap, quota,
                   quotaLastSyncedRevision, patchCount, last>>

NextAnnotated ==
    \/ \E p \in Pods, index \in {0 - 1, 2} : WriteAnnotations(p, "node0", index)
    \/ \E p \in Pods, cands \in CandidateLists :
         \E reqAnn \in RequestAnnotations(p), order \in ListOrders :
           Filter(p, cands, reqAnn, order)
    \/ Respond
    \/ \E p \in Pods : Informer(p)

SpecAnnotated == InitAnnotated /\ [][NextAnnotated]_vars

----------------------------------------------------------------------------
(* C40 *)

\* the candidate GPU nodes of the request that give no device
WithoutDevice ==
    {n \in DeviceCandidates :
        IsGPUEnabledNode(nodes[n]) /\ GetGPUDeviceCountOfNode(nodes[n]) = 0}

\* the index annotations of the pods listed on the candidates name a
\* device below 0
NegativeIndexListed ==
    \E n \in DeviceCandidates :
        /\ IsGPUEnabledNode(nodes[n])
        /\ \E i \in 1..Len(ListedOn(n)) :
              LET idx == GetPredicateIdxOfContainer(ListedOn(n)[i], 0)
              IN idx.ok /\ \E k \in 1..Len(idx.ret) : idx.ret[k] < 0

\* C40 as the specification states it: the device filter does not fault,
\* whatever GPU capacity above 0 a candidate has and whatever integers the
\* index annotations hold
C40_NeverFaults ==
    Answered => ~last.res.panic

\* the faults of the device filter are these two: a candidate with a GPU
\* capacity of 1..99, and a listed pod on a candidate with a negative index
C40_FaultsOnlyOnThese ==
    (Answered /\ last.res.panic) => (WithoutDevice # {} \/ NegativeIndexListed)

\* node1 has 50 vcuda-core and is the candidate: NewNodeInfo divides the
\* memory of the node by a device count of 0
C40_DivisionByZero ==
    /\ Answered /\ last.res.panic
    /\ last.cands = {"node1"}
    /\ WithoutDevice = {"node1"}
    /\ \A q \in Pods : cache[q].ann = NoAnnotations

\* every node has whole devices; a pod annotated for node0 with index -1
\* is listed: AddUsedResources is called on the missing device -1
C40_MissingDevice ==
    /\ Answered /\ last.res.panic
    /\ nodes = NodeTable
    /\ last.cands = {"node0"}
    /\ NegativeIndexListed

\* an index at or above the device count is skipped and the request is
\* answered
C40_HighIndexSkipped ==
    /\ Answered /\ ~last.res.panic
    /\ nodes = NodeTable
    /\ last.cands = {"node0"}
    /\ \E i \in 1..Len(ListedOn("node0")) :
          GetPredicateIdxOfContainer(ListedOn("node0")[i], 0).ret = <<2>>
    /\ Accepted = {"node0"}

====
